---- MODULE Spec2Model ----
(***************************************************************************)
(* Narratopia backend: the chapter ordering and versioning engine of       *)
(* controllers/chapter.controller.js over the Chapter, Version and Project *)
(* collections.  Documents are records, collections are functions from     *)
(* ObjectIds (small naturals, never reused) to a document or Absent.       *)
(***************************************************************************)
EXTENDS Integers, Sequences, FiniteSets, TLC

(***************************************************************************)
(* Bounds of the model.                                                    *)
(***************************************************************************)
MaxChapters == 2
MaxVersions == 2
MaxSeqLen == 2
MaxRequests == 2
MaxEntities == 2
MaxRelationships == 2

ChapterIds == 1..MaxChapters
VersionIds == 1..MaxVersions
Requests == 1..MaxRequests
EntityIds == 1..MaxEntities
RelationshipIds == 1..MaxRelationships

UserIds == {"u1", "u2"}
ProjectIds == {"p1", "p2", "p3"}

(***************************************************************************)
(* JavaScript values.  undefined and null are distinct; a content payload  *)
(* is null, a string (a sequence of one-character strings), a Draft.js     *)
(* document with a blocks array, or some other object.  A block is an      *)
(* object with a text, or NoText when it has no text property.             *)
(***************************************************************************)
Absent == [absent |-> TRUE]
Undefined == [kind |-> "undefined"]
Null == [kind |-> "null"]
Text(s) == [kind |-> "text", text |-> s]
Blocks(bs) == [kind |-> "blocks", blocks |-> bs]
Block(t) == [text |-> t]
OtherObject == [kind |-> "other"]
NoText == [kind |-> "undefined"]
NoString == "<undefined>"
NoNumber == -1

Whitespace == {" ", "\n"}

\* String.prototype.split(/\s+/): the pieces between maximal whitespace runs,
\* empty pieces at the ends included.
RECURSIVE Split(_)
Split(s) ==
  IF s = <<>> THEN << <<>> >>
  ELSE LET rest == Split(Tail(s)) IN
       IF Head(s) \in Whitespace
       THEN IF Len(s) > 1 /\ s[2] \in Whitespace THEN rest
            ELSE << <<>> >> \o rest
       ELSE << <<Head(s)>> \o Head(rest) >> \o Tail(rest)

\* Variant of NonEmpty that keeps the empty pieces (no filter(Boolean)).
NonEmpty_Any(piece) == TRUE

NonEmpty(piece) == piece # <<>>

\* text.split(/\s+/).filter(Boolean).length
TokenCount(s) == Len(SelectSeq(Split(s), NonEmpty))

RECURSIVE SumSeq(_)
SumSeq(ns) == IF ns = <<>> THEN 0 ELSE Head(ns) + SumSeq(Tail(ns))

\* JavaScript truthiness of a content payload.
Truthy(content) ==
  /\ content.kind \notin {"undefined", "null"}
  /\ ~(content.kind = "text" /\ content.text = <<>>)

countWords(content) ==
  IF ~Truthy(content) THEN 0
  ELSE IF content.kind = "text" THEN TokenCount(content.text)
  ELSE IF content.kind = "blocks"
       THEN IF \E i \in DOMAIN content.blocks : content.blocks[i] = NoText
            THEN 0   \* block.text.split throws, the catch returns 0
            ELSE SumSeq([i \in DOMAIN content.blocks |->
                           TokenCount(content.blocks[i].text)])
  ELSE 0

(***************************************************************************)
(* State.                                                                  *)
(***************************************************************************)
VARIABLES
  projects,       \* Project collection: project id -> document or Absent
  chapters,       \* Chapter collection: chapter id -> document or Absent
  versions,       \* Version collection: version id -> document or Absent
  nextChapterId,  \* next fresh Chapter _id
  nextVersionId,  \* next fresh Version _id
  response,       \* the response of the last request that ran alone
  strictReorders, \* every reorder so far supplied a permutation of its project's chapters
  inflight,       \* requests in progress: slot -> position and locals, or Absent
  entities,       \* Codex collection: entity id -> document or Absent
  relationships,  \* Relationship collection: relationship id -> document or Absent
  nextEntityId,   \* next fresh Codex _id
  nextRelationshipId, \* next fresh Relationship _id
  stats           \* WritingStats collection: the set of stored documents

\* the codex and its relationship graph
graph == <<entities, relationships, nextEntityId, nextRelationshipId>>

vars == <<projects, chapters, versions, nextChapterId, nextVersionId,
          response, strictReorders, inflight, graph, stats>>

Init ==
  /\ projects = [p \in ProjectIds |->
                   IF p = "p1" THEN [userId |-> "u1"]
                   ELSE IF p = "p2" THEN [userId |-> "u2"]
                   ELSE Absent]
  /\ chapters = [c \in ChapterIds |-> Absent]
  /\ versions = [v \in VersionIds |-> Absent]
  /\ nextChapterId = 1
  /\ nextVersionId = 1
  /\ response = [op |-> "none", status |-> 0, id |-> 0,
                 projectId |-> "", chapterOrder |-> <<>>]
  /\ strictReorders = TRUE
  /\ inflight = [r \in Requests |-> Absent]
  /\ entities = [e \in EntityIds |-> Absent]
  /\ relationships = [r \in RelationshipIds |-> Absent]
  /\ nextEntityId = 1
  /\ nextRelationshipId = 1
  /\ stats = {}

(***************************************************************************)
(* Helpers shared by the handlers.                                         *)
(***************************************************************************)
\* Variant of checkProjectOwnership without the comparison of the owner.
checkProjectOwnership_AnyUser(projs, projectId, userId) ==
  IF projs[projectId] = Absent THEN 404 ELSE 0

\* checkProjectOwnership: 0 when the caller owns the project.
checkProjectOwnership(projs, projectId, userId) ==
  IF projs[projectId] = Absent THEN 404
  ELSE IF projs[projectId].userId # userId THEN 403
  ELSE 0

ChaptersOf(chs, p) == {c \in ChapterIds : chs[c] # Absent /\ chs[c].projectId = p}

IndicesOf(chs, p) == {chs[c].orderIndex : c \in ChaptersOf(chs, p)}

SetMax(S) == CHOOSE m \in S : \A x \in S : x <= m

\* Variant of NextOrderIndex that counts the chapters instead of reading the
\* highest index.
NextOrderIndex_Count(chs, p) == Cardinality(ChaptersOf(chs, p)) + 1

\* Chapter.findOne({projectId}).sort({orderIndex: -1}), then the index to assign.
NextOrderIndex(chs, p) ==
  IF ChaptersOf(chs, p) = {} THEN 1 ELSE SetMax(IndicesOf(chs, p)) + 1

TitleLength(title) == IF title = "LONG" THEN 101 ELSE 1

\* ChapterSchema validators for title and orderIndex.
TitleValid(title) == title # NoString /\ title # "" /\ TitleLength(title) <= 100
OrderIndexValid(n) == n >= 1

\* VersionSchema: content is required.
VersionContentValid(content) == content.kind \notin {"undefined", "null"}

\* The response of a request, with what identifies the request: the chapter or
\* version id it addressed or created and, for a reorder,
\* its project and list.
RespondReorder(status, p, chapterOrder) ==
  response' = [op |-> "reorderChapters", status |-> status, id |-> 0,
               projectId |-> p, chapterOrder |-> chapterOrder]

Respond(op, status, id) ==
  response' = [op |-> op, status |-> status, id |-> id,
               projectId |-> "", chapterOrder |-> <<>>]

\* A slot is free when it holds no request or a request that was answered.
Free(r) == IF inflight[r] = Absent THEN TRUE ELSE inflight[r].pc = "done"

AllIdle == \A r \in Requests : Free(r)

\* The document Chapter.create builds: content defaults to null, wordCount is
\* counted only for truthy content.
NewChapter(p, title, content, notes, orderIndex) ==
  [projectId |-> p,
   title |-> title,
   orderIndex |-> orderIndex,
   content |-> IF content = Undefined THEN Null ELSE content,
   wordCount |-> IF Truthy(content) THEN countWords(content) ELSE 0,
   isComplete |-> FALSE,
   notes |-> notes]

\* Variant of NewVersion that leaves wordCount to its schema default.
NewVersion_DefaultWordCount(chapter, chapterId, description) ==
  [projectId |-> chapter.projectId,
   chapterId |-> chapterId,
   content |-> chapter.content,
   wordCount |-> 0,
   description |-> description]

\* The document Version.create builds from a loaded chapter.
NewVersion(chapter, chapterId, description) ==
  [projectId |-> chapter.projectId,
   chapterId |-> chapterId,
   content |-> chapter.content,
   wordCount |-> chapter.wordCount,
   description |-> description]

\* Variant of DeleteVersionsOf whose filter omits the chapterId condition.
DeleteVersionsOf_All(vs, c) == [v \in VersionIds |-> Absent]

\* Version.deleteMany({chapterId}).
DeleteVersionsOf(vs, c) ==
  [v \in VersionIds |-> IF vs[v] # Absent /\ vs[v].chapterId = c THEN Absent ELSE vs[v]]

\* Variant of DecrementAbove whose filter omits the orderIndex condition.
DecrementAbove_All(chs, p, k) ==
  [c \in ChapterIds |->
     IF chs[c] # Absent /\ chs[c].projectId = p
     THEN [chs[c] EXCEPT !.orderIndex = @ - 1]
     ELSE chs[c]]

\* Variant of DecrementAbove that renumbers nothing.
DecrementAbove_None(chs, p, k) == chs

\* Chapter.updateMany({projectId, orderIndex: {$gt: k}}, {$inc: {orderIndex: -1}}).
DecrementAbove(chs, p, k) ==
  [c \in ChapterIds |->
     IF chs[c] # Absent /\ chs[c].projectId = p /\ chs[c].orderIndex > k
     THEN [chs[c] EXCEPT !.orderIndex = @ - 1]
     ELSE chs[c]]

\* Chapter.findOneAndUpdate({_id: order[i], projectId: p}, {orderIndex: i}) for
\* every position i (1-based here, index + 1 in the source), all awaited
\* together: an id listed twice ends with the index of either position.
ReorderTargets_AnyProject(chs, p, order) ==
  {c \in ChapterIds : chs[c] # Absent /\ \E i \in DOMAIN order : order[i] = c}

ReorderTargets(chs, p, order) ==
  {c \in ChaptersOf(chs, p) : \E i \in DOMAIN order : order[i] = c}

\* Variant of ReorderOutcomes that moves the chapters the list omits behind
\* the listed ones.
ReorderOutcomes_Compact(chs, p, order) ==
  LET targets == ReorderTargets(chs, p, order)
      picks == {f \in [targets -> DOMAIN order] : \A c \in targets : order[f[c]] = c}
  IN {[c \in ChapterIds |->
         IF c \in targets THEN [chs[c] EXCEPT !.orderIndex = f[c]]
         ELSE IF c \in ChaptersOf(chs, p) THEN [chs[c] EXCEPT !.orderIndex = Len(order) + 1]
         ELSE chs[c]]
      : f \in picks}

ReorderOutcomes(chs, p, order) ==
  LET targets == ReorderTargets(chs, p, order)
      picks == {f \in [targets -> DOMAIN order] : \A c \in targets : order[f[c]] = c}
  IN {[c \in ChapterIds |->
         IF c \in targets THEN [chs[c] EXCEPT !.orderIndex = f[c]] ELSE chs[c]]
      : f \in picks}

IsPermutationOf(order, S) ==
  /\ Len(order) = Cardinality(S)
  /\ {order[i] : i \in DOMAIN order} = S

\* The $set document updateChapter builds from the request body.
UpdateFields(doc, title, content, notes, orderIndex, isComplete) ==
  [projectId |-> doc.projectId,
   title |-> IF title # NoString THEN title ELSE doc.title,
   orderIndex |-> IF orderIndex # NoNumber THEN orderIndex ELSE doc.orderIndex,
   content |-> IF content # Undefined THEN content ELSE doc.content,
   wordCount |-> IF content # Undefined THEN countWords(content) ELSE doc.wordCount,
   isComplete |-> IF isComplete # NoString THEN isComplete = "true" ELSE doc.isComplete,
   notes |-> IF notes # NoString THEN notes ELSE doc.notes]

\* runValidators: the validators of the paths present in $set.
UpdateValid(title, orderIndex) ==
  /\ title # NoString => TitleValid(title)
  /\ orderIndex # NoNumber => OrderIndexValid(orderIndex)

\* Variant of SaveRestored that assigns the content only.
SaveRestored_ContentOnly(current, loaded, version) ==
  [current EXCEPT
     !.content = IF version.content # loaded.content THEN version.content ELSE @]

\* chapter.save() after content and wordCount were assigned from the version:
\* only the paths whose value changed on the loaded document are written.
SaveRestored(current, loaded, version) ==
  [current EXCEPT
     !.content = IF version.content # loaded.content THEN version.content ELSE @,
     !.wordCount = IF version.wordCount # loaded.wordCount THEN version.wordCount ELSE @]

(***************************************************************************)
(* Handlers, each run alone from request to response.                      *)
(***************************************************************************)
createChapter(u, p, title, content, notes) ==
  /\ AllIdle
  /\ nextChapterId <= MaxChapters
  /\ LET own == checkProjectOwnership(projects, p, u)
         orderIndex == NextOrderIndex(chapters, p)
     IN IF own # 0
        THEN /\ Respond("createChapter", own, 0)
             /\ UNCHANGED <<chapters, nextChapterId>>
        ELSE IF ~TitleValid(title)
        THEN /\ Respond("createChapter", 500, 0)
             /\ UNCHANGED <<chapters, nextChapterId>>
        ELSE /\ chapters' = [chapters EXCEPT ![nextChapterId] =
                               NewChapter(p, title, content, notes, orderIndex)]
             /\ nextChapterId' = nextChapterId + 1
             /\ Respond("createChapter", 201, nextChapterId)
  /\ UNCHANGED graph
  /\ UNCHANGED <<projects, versions, nextVersionId, strictReorders, inflight>>
  /\ UNCHANGED stats

updateChapter(u, c, title, content, notes, orderIndex, isComplete) ==
  /\ AllIdle
  /\ IF chapters[c] = Absent
     THEN Respond("updateChapter", 404, c) /\ UNCHANGED chapters
     ELSE LET own == checkProjectOwnership(projects, chapters[c].projectId, u) IN
          IF own # 0
          THEN Respond("updateChapter", own, c) /\ UNCHANGED chapters
          ELSE IF ~UpdateValid(title, orderIndex)
          THEN Respond("updateChapter", 500, c) /\ UNCHANGED chapters
          ELSE /\ chapters' = [chapters EXCEPT ![c] =
                     UpdateFields(@, title, content, notes, orderIndex, isComplete)]
               /\ Respond("updateChapter", 200, c)
  /\ UNCHANGED graph
  /\ UNCHANGED <<projects, versions, nextChapterId, nextVersionId, strictReorders, inflight>>
  /\ UNCHANGED stats

deleteChapter(u, c) ==
  /\ AllIdle
  /\ IF chapters[c] = Absent
     THEN Respond("deleteChapter", 404, c) /\ UNCHANGED <<chapters, versions>>
     ELSE LET own == checkProjectOwnership(projects, chapters[c].projectId, u) IN
          IF own # 0
          THEN Respond("deleteChapter", own, c) /\ UNCHANGED <<chapters, versions>>
          ELSE /\ chapters' = DecrementAbove([chapters EXCEPT ![c] = Absent],
                                             chapters[c].projectId, chapters[c].orderIndex)
               /\ versions' = DeleteVersionsOf(versions, c)
               /\ Respond("deleteChapter", 200, c)
  /\ UNCHANGED graph
  /\ UNCHANGED <<projects, nextChapterId, nextVersionId, strictReorders, inflight>>
  /\ UNCHANGED stats

reorderChapters(u, p, isArray, chapterOrder) ==
  /\ AllIdle
  /\ IF ~isArray
     THEN RespondReorder(400, p, chapterOrder) /\ UNCHANGED <<chapters, strictReorders>>
     ELSE LET own == checkProjectOwnership(projects, p, u) IN
          IF own # 0
          THEN RespondReorder(own, p, chapterOrder) /\ UNCHANGED <<chapters, strictReorders>>
          ELSE /\ chapters' \in ReorderOutcomes(chapters, p, chapterOrder)
               /\ strictReorders' = (strictReorders /\
                     IsPermutationOf(chapterOrder, ChaptersOf(chapters, p)))
               /\ RespondReorder(200, p, chapterOrder)
  /\ UNCHANGED graph
  /\ UNCHANGED <<projects, versions, nextChapterId, nextVersionId, inflight>>
  /\ UNCHANGED stats

createVersion(u, c, description) ==
  /\ AllIdle
  /\ nextVersionId <= MaxVersions
  /\ IF chapters[c] = Absent
     THEN Respond("createVersion", 404, 0) /\ UNCHANGED <<versions, nextVersionId>>
     ELSE LET own == checkProjectOwnership(projects, chapters[c].projectId, u) IN
          IF own # 0
          THEN Respond("createVersion", own, 0) /\ UNCHANGED <<versions, nextVersionId>>
          ELSE IF ~VersionContentValid(chapters[c].content)
          THEN Respond("createVersion", 500, 0) /\ UNCHANGED <<versions, nextVersionId>>
          ELSE /\ versions' = [versions EXCEPT ![nextVersionId] =
                     NewVersion(chapters[c], c,
                                IF description = NoString \/ description = ""
                                THEN "Snapshot created on <date>" ELSE description)]
               /\ nextVersionId' = nextVersionId + 1
               /\ Respond("createVersion", 201, nextVersionId)
  /\ UNCHANGED graph
  /\ UNCHANGED <<projects, chapters, nextChapterId, strictReorders, inflight>>
  /\ UNCHANGED stats

restoreVersion(u, v) ==
  /\ AllIdle
  /\ nextVersionId <= MaxVersions
  /\ IF versions[v] = Absent
     THEN Respond("restoreVersion", 404, v) /\ UNCHANGED <<chapters, versions, nextVersionId>>
     ELSE LET own == checkProjectOwnership(projects, versions[v].projectId, u)
              c == versions[v].chapterId
          IN
          IF own # 0
          THEN Respond("restoreVersion", own, v) /\ UNCHANGED <<chapters, versions, nextVersionId>>
          ELSE IF chapters[c] = Absent
          THEN Respond("restoreVersion", 404, v) /\ UNCHANGED <<chapters, versions, nextVersionId>>
          ELSE IF ~VersionContentValid(chapters[c].content)
          THEN Respond("restoreVersion", 500, v) /\ UNCHANGED <<chapters, versions, nextVersionId>>
          ELSE /\ versions' = [versions EXCEPT ![nextVersionId] =
                     NewVersion(chapters[c], c, "Auto-saved before version restore")]
               /\ nextVersionId' = nextVersionId + 1
               /\ chapters' = [chapters EXCEPT ![c] = SaveRestored(@, @, versions[v])]
               /\ Respond("restoreVersion", 200, v)
  /\ UNCHANGED graph
  /\ UNCHANGED <<projects, nextChapterId, strictReorders, inflight>>
  /\ UNCHANGED stats

(***************************************************************************)
(* Request inputs.                                                         *)
(***************************************************************************)
RECURSIVE SeqsUpTo(_, _)
SeqsUpTo(S, n) ==
  IF n = 0 THEN {<<>>}
  ELSE LET shorter == SeqsUpTo(S, n - 1) IN
       shorter \cup {Append(q, x) : q \in shorter, x \in S}

Distinct(q) == \A i, j \in DOMAIN q : q[i] = q[j] => i = j

\* chapterOrder bodies: the lists of distinct chapter ids up to the bound, and
\* the lists that name one id twice.
Orders ==
  {q \in SeqsUpTo(ChapterIds, MaxSeqLen) : Distinct(q)}
    \cup {<<c, c>> : c \in ChapterIds}

\* The lists that name every chapter of a set exactly once.
PermutationsOf(S) ==
  {q \in SeqsUpTo(S, Cardinality(S)) : IsPermutationOf(q, S)}

Titles == {"T", "LONG", NoString}
OrderIndexInputs == {NoNumber} \cup (0..MaxChapters)
ContentInputs == {Undefined, Text(<<"a">>), Text(<<"a", " ", "b">>)}

(***************************************************************************)
(* SpecOrder: the ordering manager (create, delete, reorder), requests run *)
(* one at a time.                                                          *)
(***************************************************************************)
OrderCreate == \E u \in UserIds, p \in ProjectIds, t \in Titles :
                  createChapter(u, p, t, Undefined, NoString)
OrderDelete == \E u \in UserIds, c \in ChapterIds : deleteChapter(u, c)
\* A request that is refused (not an array, or not the caller's project) is
\* refused whatever the list, so the lists are enumerated for the owner only.
OrderReorder == \E u \in UserIds, p \in ProjectIds :
                  \/ /\ checkProjectOwnership(projects, p, u) = 0
                     /\ \E q \in Orders : reorderChapters(u, p, TRUE, q)
                  \/ reorderChapters(u, p, TRUE, <<>>)
                  \/ reorderChapters(u, p, FALSE, <<>>)

NextOrder == OrderCreate \/ OrderDelete \/ OrderReorder

SpecOrder == Init /\ [][NextOrder]_vars

\* C34: reorderChapters changes only orderIndex values: a chapter that the
\* list does not name keeps its document as it is, a named chapter changes
\* in its orderIndex at most, no chapter is created or deleted and no
\* version changes.
C34_ReorderChangesOnlyIndex ==
  [][(response'.op = "reorderChapters") =>
       LET q == response'.chapterOrder IN
       /\ versions' = versions
       /\ \A c \in ChapterIds :
            IF chapters[c] = Absent THEN chapters'[c] = Absent
            ELSE /\ chapters'[c] # Absent
                 /\ chapters'[c] = [chapters[c] EXCEPT !.orderIndex = chapters'[c].orderIndex]
                 /\ (\A i \in DOMAIN q : q[i] # c) => chapters'[c] = chapters[c]]_vars

\* a reorder of p1 with the list <<2>>: chapter 2 took index 1 and the omitted
\* chapter 1 kept index 1, so the project holds the index 1 twice and no 2
C34_Witness ==
  /\ response.op = "reorderChapters" /\ response.status = 200
  /\ response.projectId = "p1" /\ response.chapterOrder = <<2>>
  /\ chapters[1] # Absent /\ chapters[1].projectId = "p1" /\ chapters[1].orderIndex = 1
  /\ chapters[2] # Absent /\ chapters[2].projectId = "p1" /\ chapters[2].orderIndex = 1

\* The project a createChapter, deleteChapter or reorderChapters step is
\* applied to: the project of the route, or the project of the chapter the
\* route names ("" when there is no such chapter).
ProjectOfStep ==
  IF response'.op = "reorderChapters" THEN response'.projectId
  ELSE IF response'.op = "deleteChapter"
  THEN IF chapters[response'.id] = Absent THEN "" ELSE chapters[response'.id].projectId
  ELSE IF response'.status = 201 THEN chapters'[response'.id].projectId
  ELSE ""

\* C39: a createChapter, deleteChapter or reorderChapters applied to a
\* project changes no field of a chapter of another project and neither
\* deletes nor creates such a chapter, whatever ids the reorder list holds.
C39_OrderingIsolatedPerProject ==
  [][(response'.op \in {"createChapter", "deleteChapter", "reorderChapters"}) =>
       \A c \in ChapterIds :
         /\ (chapters[c] # Absent /\ chapters[c].projectId # ProjectOfStep)
              => chapters'[c] = chapters[c]
         /\ (chapters[c] = Absent /\ chapters'[c] # Absent)
              => chapters'[c].projectId = ProjectOfStep]_vars

\* u1 reordered p1 with the list <<1, 2>>, where chapter 2 is the first
\* chapter of p2: it kept its index 1
C39_Witness ==
  /\ response.op = "reorderChapters" /\ response.status = 200
  /\ response.projectId = "p1" /\ response.chapterOrder = <<1, 2>>
  /\ chapters[1] # Absent /\ chapters[1].projectId = "p1" /\ chapters[1].orderIndex = 1
  /\ chapters[2] # Absent /\ chapters[2].projectId = "p2" /\ chapters[2].orderIndex = 1

(***************************************************************************)
(* SpecChapters: the ordering manager with updateChapter, whose patch may  *)
(* carry an orderIndex; every reorder names each chapter of the project    *)
(* exactly once.                                                           *)
(***************************************************************************)
ChaptersUpdate == \E u \in UserIds, c \in ChapterIds, n \in OrderIndexInputs :
                    updateChapter(u, c, NoString, Undefined, NoString, n, NoString)
ChaptersReorder == \E u \in UserIds, p \in ProjectIds :
                     \E q \in PermutationsOf(ChaptersOf(chapters, p)) :
                       reorderChapters(u, p, TRUE, q)

NextChapters == OrderCreate \/ OrderDelete \/ ChaptersReorder \/ ChaptersUpdate

SpecChapters == Init /\ [][NextChapters]_vars

\* The orderIndex values of every project are exactly 1..N.
Dense(chs, p) ==
  /\ IndicesOf(chs, p) = 1..Cardinality(ChaptersOf(chs, p))
  /\ \A c, d \in ChaptersOf(chs, p) : chs[c].orderIndex = chs[d].orderIndex => c = d

\* C1 (as stated): after any sequence of createChapter, deleteChapter and
\* reorderChapters calls with any caller-supplied list, the orderIndex values
\* of every project are exactly 1..N, without gap or duplicate.
C1_DenseAfterAnySequence == \A p \in ProjectIds : Dense(chapters, p)

\* C1 (amended): the same, provided every reorderChapters call so far supplied
\* a list naming each chapter of its project exactly once and no other id.
C1_DenseAfterStrictReorders ==
  strictReorders => \A p \in ProjectIds : Dense(chapters, p)

C1_Witness ==
  /\ strictReorders
  /\ response.op = "reorderChapters" /\ response.status = 200
  /\ ChaptersOf(chapters, "p1") = {1, 2}
  /\ chapters[1].orderIndex = 2
  /\ chapters[2].orderIndex = 1

\* C2: with updateChapter among the operations, no two chapters of a project
\* share an orderIndex and the orderIndex values of every project are exactly
\* 1..N, in every reachable state.
C2_UniqueAndDense ==
  \A p \in ProjectIds :
    /\ \A c, d \in ChaptersOf(chapters, p) :
         c # d => chapters[c].orderIndex # chapters[d].orderIndex
    /\ IndicesOf(chapters, p) = 1..Cardinality(ChaptersOf(chapters, p))

\* C3: deleteChapter of the chapter with orderIndex k, in a project whose
\* indices are 1..N, removes that chapter, lowers by exactly 1 the orderIndex
\* of every other chapter of the project whose index was above k, and leaves
\* the orderIndex of those below k as it was.
C3_DeleteRenumbers ==
  [][\A u \in UserIds, c \in ChapterIds :
       (/\ response'.op = "deleteChapter" /\ response'.status = 200
        /\ deleteChapter(u, c)
        /\ Dense(chapters, chapters[c].projectId))
       => LET p == chapters[c].projectId
              k == chapters[c].orderIndex
          IN /\ chapters'[c] = Absent
             /\ \A d \in ChaptersOf(chapters, p) \ {c} :
                  /\ chapters'[d] # Absent
                  /\ chapters[d].orderIndex > k
                       => chapters'[d].orderIndex = chapters[d].orderIndex - 1
                  /\ chapters[d].orderIndex < k
                       => chapters'[d].orderIndex = chapters[d].orderIndex]_vars

C3_Witness ==
  /\ response.op = "deleteChapter" /\ response.status = 200 /\ response.id = 1
  /\ strictReorders
  /\ chapters[1] = Absent
  /\ chapters[2] # Absent /\ chapters[2].orderIndex = 1

\* C4: createChapter gives the new chapter the largest orderIndex of the
\* project's chapters plus 1, or 1 when the project has none, and changes no
\* existing chapter.
C4_CreateAppends ==
  [][\A u \in UserIds, p \in ProjectIds, t \in Titles :
       (/\ response'.op = "createChapter" /\ response'.status = 201
        /\ createChapter(u, p, t, Undefined, NoString))
       => LET new == response'.id
              old == ChaptersOf(chapters, p)
          IN /\ chapters[new] = Absent
             /\ chapters'[new].projectId = p
             /\ old = {} => chapters'[new].orderIndex = 1
             /\ \A c \in old :
                  (\A d \in old : chapters[d].orderIndex <= chapters[c].orderIndex)
                    => chapters'[new].orderIndex = chapters[c].orderIndex + 1
             /\ \A c \in ChapterIds \ {new} : chapters'[c] = chapters[c]]_vars

\* a chapter appended behind a gap: the project's only other chapter has index 2
C4_Witness ==
  /\ response.op = "createChapter" /\ response.status = 201 /\ response.id = 2
  /\ chapters[1] # Absent /\ chapters[1].projectId = chapters[2].projectId
  /\ chapters[1].orderIndex = 2
  /\ chapters[2].orderIndex = 3

\* C6: reorderChapters(project, list) with a list of distinct ids gives
\* orderIndex = position (1-based) to every chapter of the project that the
\* list names; an id that is no chapter of the project is ignored: the call of
\* the project's owner succeeds, no chapter is created and a chapter of another
\* project keeps its orderIndex.
C6_ReorderAssignsPositions ==
  [][response'.op = "reorderChapters" =>
       LET p == response'.projectId
           q == response'.chapterOrder
       IN /\ \A u \in UserIds :
               (checkProjectOwnership(projects, p, u) = 0
                  /\ reorderChapters(u, p, TRUE, q))
               => response'.status = 200
          /\ (response'.status = 200 /\ Distinct(q)) =>
               /\ \A i \in DOMAIN q :
                    (chapters[q[i]] # Absent /\ chapters[q[i]].projectId = p)
                      => chapters'[q[i]] = [chapters[q[i]] EXCEPT !.orderIndex = i]
               /\ \A c \in ChapterIds :
                    /\ chapters[c] = Absent => chapters'[c] = Absent
                    /\ (chapters[c] # Absent /\ chapters[c].projectId # p)
                         => chapters'[c] = chapters[c]
               /\ nextChapterId' = nextChapterId]_vars

\* a list naming a chapter of another project first: the project's own chapter
\* takes index 2, the other project's chapter keeps index 1
C6_Witness ==
  /\ response.op = "reorderChapters" /\ response.status = 200
  /\ response.projectId = "p1"
  /\ response.chapterOrder = <<2, 1>>
  /\ chapters[1] # Absent /\ chapters[1].projectId = "p1" /\ chapters[1].orderIndex = 2
  /\ chapters[2] # Absent /\ chapters[2].projectId = "p2" /\ chapters[2].orderIndex = 1

(***************************************************************************)
(* SpecVersions: the version store (snapshot and restore) over the         *)
(* chapters of project p1, whose owner u1 edits their content and other    *)
(* fields with updateChapter; requests run one at a time.                  *)
(***************************************************************************)
ContentPatches == ContentInputs \ {Undefined}

VersionsCreate == \E u \in {"u1"}, content \in ContentInputs :
                    createChapter(u, "p1", "T", content, NoString)
VersionsEdit == \E u \in {"u1"}, c \in ChapterIds :
                  \/ \E content \in ContentPatches :
                       updateChapter(u, c, NoString, content, NoString, NoNumber, NoString)
                  \/ updateChapter(u, c, "T2", Undefined, "n", NoNumber, "true")
VersionsDelete == \E u \in {"u1"}, c \in ChapterIds : deleteChapter(u, c)
VersionsSnapshot == \E u \in {"u1"}, c \in ChapterIds : createVersion(u, c, NoString)
VersionsRestore == \E u \in {"u1"}, v \in VersionIds : restoreVersion(u, v)

NextVersions ==
  VersionsCreate \/ VersionsEdit \/ VersionsDelete \/ VersionsSnapshot \/ VersionsRestore

SpecVersions == Init /\ [][NextVersions]_vars

VersionsPresent(vs) == {v \in VersionIds : vs[v] # Absent}

\* C7: a successful restoreVersion(V) on chapter C creates exactly one new
\* Version, of C, whose content and wordCount are those C had immediately
\* before the restore.
C7_RestoreSnapshotsOnce ==
  [][\A u \in UserIds, v \in VersionIds :
       (/\ response'.op = "restoreVersion" /\ response'.status = 200
        /\ restoreVersion(u, v))
       => LET c == versions[v].chapterId
              created == VersionsPresent(versions') \ VersionsPresent(versions)
          IN /\ Cardinality(created) = 1
             /\ \A n \in created :
                  /\ versions'[n].chapterId = c
                  /\ versions'[n].content = chapters[c].content
                  /\ versions'[n].wordCount = chapters[c].wordCount]_vars

\* the safety snapshot (version 2) differs from the restored version 1
C7_Witness ==
  /\ response.op = "restoreVersion" /\ response.status = 200 /\ response.id = 1
  /\ versions[1] # Absent /\ versions[2] # Absent
  /\ versions[2].description = "Auto-saved before version restore"
  /\ versions[2].chapterId = versions[1].chapterId
  /\ versions[2].content # versions[1].content
  /\ versions[2].wordCount # versions[1].wordCount

\* C8: after a successful restoreVersion(V) the chapter V.chapterId has V's
\* content and wordCount, its other fields are as before, and no other
\* chapter has changed.
C8_RestoreOverwritesContentOnly ==
  [][\A u \in UserIds, v \in VersionIds :
       (/\ response'.op = "restoreVersion" /\ response'.status = 200
        /\ restoreVersion(u, v))
       => LET c == versions[v].chapterId
          IN /\ chapters'[c] = [chapters[c] EXCEPT !.content = versions[v].content,
                                                   !.wordCount = versions[v].wordCount]
             /\ \A d \in ChapterIds \ {c} : chapters'[d] = chapters[d]]_vars

\* chapter 1, edited after its snapshot, is back at the snapshot's content,
\* with the title, notes and completion flag of the edit
C8_Witness ==
  /\ response.op = "restoreVersion" /\ response.status = 200 /\ response.id = 1
  /\ versions[1] # Absent /\ versions[2] # Absent
  /\ versions[1].chapterId = 1
  /\ chapters[1] # Absent
  /\ chapters[1].content = versions[1].content
  /\ chapters[1].content # versions[2].content
  /\ chapters[1].title = "T2" /\ chapters[1].isComplete
  /\ chapters[2] # Absent

\* C10: createVersion succeeds for every existing chapter whose project the
\* caller owns, a chapter created without content included: it stores one new
\* Version with the chapter's content and wordCount and leaves the chapter
\* unchanged.
C10_SnapshotAlwaysSucceeds ==
  [][\A u \in UserIds, c \in ChapterIds :
       (/\ response'.op = "createVersion"
        /\ createVersion(u, c, NoString)
        /\ chapters[c] # Absent
        /\ checkProjectOwnership(projects, chapters[c].projectId, u) = 0)
       => /\ response'.status = 201
          /\ versions[response'.id] = Absent
          /\ versions'[response'.id] # Absent
          /\ versions'[response'.id].chapterId = c
          /\ versions'[response'.id].content = chapters[c].content
          /\ versions'[response'.id].wordCount = chapters[c].wordCount
          /\ chapters' = chapters]_vars

\* C11: a Version that exists is never changed: in every step it either keeps
\* its content, wordCount, chapterId, projectId and description, or it is
\* removed, and it is removed only by a successful deleteChapter of the
\* chapter it belongs to.  In particular a restoreVersion leaves its target
\* version in place and unchanged.
C11_VersionsImmutable ==
  [][\A v \in VersionIds :
       versions[v] # Absent
       => IF versions'[v] = Absent
          THEN /\ response'.op = "deleteChapter" /\ response'.status = 200
               /\ response'.id = versions[v].chapterId
               /\ chapters[versions[v].chapterId] # Absent
               /\ chapters'[versions[v].chapterId] = Absent
          ELSE versions'[v] = versions[v]]_vars

\* version 1 was restored into chapter 1 while chapter 2 exists, and is
\* still stored with the content the chapter now has
C11_Witness ==
  /\ response.op = "restoreVersion" /\ response.status = 200 /\ response.id = 1
  /\ versions[1] # Absent /\ versions[1].chapterId = 1
  /\ chapters[1] # Absent /\ chapters[2] # Absent
  /\ chapters[1].content = versions[1].content
  /\ chapters[1].wordCount = versions[1].wordCount
  /\ versions[1].content = Text(<<"a", " ", "b">>)

(***************************************************************************)
(* Handlers as they run under concurrent requests: every await is a step   *)
(* of its own, the documents a handler has loaded are its locals, and the  *)
(* steps of different requests interleave.  A request occupies a slot of   *)
(* inflight from its arrival until the slot is taken by a later request;   *)
(* once answered it keeps its status and the id it created.                *)
(***************************************************************************)
Request(op, u) ==
  [op |-> op, pc |-> "start", userId |-> u,
   projectId |-> "", chapterId |-> 0, versionId |-> 0,
   title |-> NoString, content |-> Undefined, notes |-> NoString,
   orderIndex |-> NoNumber, isComplete |-> NoString,
   chapter |-> Absent, version |-> Absent,
   status |-> 0, id |-> 0]

At(r, op, pc) == inflight[r] # Absent /\ inflight[r].op = op /\ inflight[r].pc = pc

Goto(r, pc) == inflight' = [inflight EXCEPT ![r].pc = pc]

\* The answered request keeps what its response tells: the status, the id and,
\* of a created chapter, its project and orderIndex.
Answer(r, status, id) ==
  inflight' = [inflight EXCEPT ![r] =
     [Request(inflight[r].op, inflight[r].userId) EXCEPT
        !.pc = "done", !.status = status, !.id = id,
        !.projectId = inflight[r].projectId,
        !.orderIndex = IF inflight[r].op = "createChapter"
                       THEN inflight[r].orderIndex ELSE NoNumber]]

\* Requests in progress that are still to insert a Chapter or a Version.
PendingChapters ==
  Cardinality({r \in Requests : ~Free(r) /\ inflight[r].op = "createChapter"})
PendingVersions ==
  Cardinality({r \in Requests : ~Free(r) /\ inflight[r].op \in {"createVersion", "restoreVersion"}})

\* createChapter, part_004:775-822.
createChapter_Begin(r, u, p, title, content, notes) ==
  /\ Free(r)
  /\ nextChapterId + PendingChapters <= MaxChapters
  /\ inflight' = [inflight EXCEPT ![r] =
        [Request("createChapter", u) EXCEPT
           !.pc = "checkOwnership", !.projectId = p,
           !.title = title, !.content = content, !.notes = notes]]
  /\ UNCHANGED graph
  /\ UNCHANGED <<projects, chapters, versions, nextChapterId, nextVersionId,
                 response, strictReorders>>
  /\ UNCHANGED stats

createChapter_CheckOwnership(r) ==
  /\ At(r, "createChapter", "checkOwnership")
  /\ LET own == checkProjectOwnership(projects, inflight[r].projectId, inflight[r].userId)
     IN IF own # 0 THEN Answer(r, own, 0) ELSE Goto(r, "findHighest")
  /\ UNCHANGED graph
  /\ UNCHANGED <<projects, chapters, versions, nextChapterId, nextVersionId,
                 response, strictReorders>>
  /\ UNCHANGED stats

createChapter_FindHighest(r) ==
  /\ At(r, "createChapter", "findHighest")
  /\ inflight' = [inflight EXCEPT
        ![r].pc = "create",
        ![r].orderIndex = NextOrderIndex(chapters, inflight[r].projectId)]
  /\ UNCHANGED graph
  /\ UNCHANGED <<projects, chapters, versions, nextChapterId, nextVersionId,
                 response, strictReorders>>
  /\ UNCHANGED stats

createChapter_Create(r) ==
  /\ At(r, "createChapter", "create")
  /\ LET q == inflight[r] IN
     IF ~TitleValid(q.title)
     THEN Answer(r, 500, 0) /\ UNCHANGED <<chapters, nextChapterId>>
     ELSE /\ chapters' = [chapters EXCEPT ![nextChapterId] =
                NewChapter(q.projectId, q.title, q.content, q.notes, q.orderIndex)]
          /\ nextChapterId' = nextChapterId + 1
          /\ Answer(r, 201, nextChapterId)
  /\ UNCHANGED graph
  /\ UNCHANGED <<projects, versions, nextVersionId, response, strictReorders>>
  /\ UNCHANGED stats

\* updateChapter, part_004:864-916.
updateChapter_Begin(r, u, c, title, content, notes, orderIndex, isComplete) ==
  /\ Free(r)
  /\ inflight' = [inflight EXCEPT ![r] =
        [Request("updateChapter", u) EXCEPT
           !.pc = "findChapter", !.chapterId = c,
           !.title = title, !.content = content, !.notes = notes,
           !.orderIndex = orderIndex, !.isComplete = isComplete]]
  /\ UNCHANGED graph
  /\ UNCHANGED <<projects, chapters, versions, nextChapterId, nextVersionId,
                 response, strictReorders>>
  /\ UNCHANGED stats

updateChapter_FindChapter(r) ==
  /\ At(r, "updateChapter", "findChapter")
  /\ LET c == inflight[r].chapterId IN
     IF chapters[c] = Absent THEN Answer(r, 404, c)
     ELSE inflight' = [inflight EXCEPT ![r].pc = "checkOwnership",
                                       ![r].chapter = chapters[c]]
  /\ UNCHANGED graph
  /\ UNCHANGED <<projects, chapters, versions, nextChapterId, nextVersionId,
                 response, strictReorders>>
  /\ UNCHANGED stats

updateChapter_CheckOwnership(r) ==
  /\ At(r, "updateChapter", "checkOwnership")
  /\ LET own == checkProjectOwnership(projects, inflight[r].chapter.projectId,
                                      inflight[r].userId)
     IN IF own # 0 THEN Answer(r, own, inflight[r].chapterId) ELSE Goto(r, "update")
  /\ UNCHANGED graph
  /\ UNCHANGED <<projects, chapters, versions, nextChapterId, nextVersionId,
                 response, strictReorders>>
  /\ UNCHANGED stats

\* findByIdAndUpdate: of a chapter deleted meanwhile it returns null, and the
\* handler still answers 200.
updateChapter_Update(r) ==
  /\ At(r, "updateChapter", "update")
  /\ LET q == inflight[r]
         c == q.chapterId
     IN IF ~UpdateValid(q.title, q.orderIndex)
        THEN Answer(r, 500, c) /\ UNCHANGED chapters
        ELSE IF chapters[c] = Absent
        THEN Answer(r, 200, c) /\ UNCHANGED chapters
        ELSE /\ chapters' = [chapters EXCEPT ![c] =
                   UpdateFields(@, q.title, q.content, q.notes, q.orderIndex, q.isComplete)]
             /\ Answer(r, 200, c)
  /\ UNCHANGED graph
  /\ UNCHANGED <<projects, versions, nextChapterId, nextVersionId,
                 response, strictReorders>>
  /\ UNCHANGED stats

\* createVersion, part_004:1027-1070.
createVersion_Begin(r, u, c) ==
  /\ Free(r)
  /\ nextVersionId + PendingVersions <= MaxVersions
  /\ inflight' = [inflight EXCEPT ![r] =
        [Request("createVersion", u) EXCEPT !.pc = "findChapter", !.chapterId = c]]
  /\ UNCHANGED graph
  /\ UNCHANGED <<projects, chapters, versions, nextChapterId, nextVersionId,
                 response, strictReorders>>
  /\ UNCHANGED stats

createVersion_FindChapter(r) ==
  /\ At(r, "createVersion", "findChapter")
  /\ LET c == inflight[r].chapterId IN
     IF chapters[c] = Absent THEN Answer(r, 404, 0)
     ELSE inflight' = [inflight EXCEPT ![r].pc = "checkOwnership",
                                       ![r].chapter = chapters[c]]
  /\ UNCHANGED graph
  /\ UNCHANGED <<projects, chapters, versions, nextChapterId, nextVersionId,
                 response, strictReorders>>
  /\ UNCHANGED stats

createVersion_CheckOwnership(r) ==
  /\ At(r, "createVersion", "checkOwnership")
  /\ LET own == checkProjectOwnership(projects, inflight[r].chapter.projectId,
                                      inflight[r].userId)
     IN IF own # 0 THEN Answer(r, own, 0) ELSE Goto(r, "create")
  /\ UNCHANGED graph
  /\ UNCHANGED <<projects, chapters, versions, nextChapterId, nextVersionId,
                 response, strictReorders>>
  /\ UNCHANGED stats

createVersion_Create(r) ==
  /\ At(r, "createVersion", "create")
  /\ LET q == inflight[r] IN
     IF ~VersionContentValid(q.chapter.content)
     THEN Answer(r, 500, 0) /\ UNCHANGED <<versions, nextVersionId>>
     ELSE /\ versions' = [versions EXCEPT ![nextVersionId] =
                NewVersion(q.chapter, q.chapterId, "Snapshot created on <date>")]
          /\ nextVersionId' = nextVersionId + 1
          /\ Answer(r, 201, nextVersionId)
  /\ UNCHANGED graph
  /\ UNCHANGED <<projects, chapters, nextChapterId, response, strictReorders>>
  /\ UNCHANGED stats

\* restoreVersion, part_004:1155-1212.
restoreVersion_Begin(r, u, v) ==
  /\ Free(r)
  /\ nextVersionId + PendingVersions <= MaxVersions
  /\ inflight' = [inflight EXCEPT ![r] =
        [Request("restoreVersion", u) EXCEPT !.pc = "findVersion", !.versionId = v]]
  /\ UNCHANGED graph
  /\ UNCHANGED <<projects, chapters, versions, nextChapterId, nextVersionId,
                 response, strictReorders>>
  /\ UNCHANGED stats

restoreVersion_FindVersion(r) ==
  /\ At(r, "restoreVersion", "findVersion")
  /\ LET v == inflight[r].versionId IN
     IF versions[v] = Absent THEN Answer(r, 404, v)
     ELSE inflight' = [inflight EXCEPT ![r].pc = "checkOwnership",
                                       ![r].version = versions[v],
                                       ![r].chapterId = versions[v].chapterId]
  /\ UNCHANGED graph
  /\ UNCHANGED <<projects, chapters, versions, nextChapterId, nextVersionId,
                 response, strictReorders>>
  /\ UNCHANGED stats

restoreVersion_CheckOwnership(r) ==
  /\ At(r, "restoreVersion", "checkOwnership")
  /\ LET own == checkProjectOwnership(projects, inflight[r].version.projectId,
                                      inflight[r].userId)
     IN IF own # 0 THEN Answer(r, own, inflight[r].versionId) ELSE Goto(r, "findChapter")
  /\ UNCHANGED graph
  /\ UNCHANGED <<projects, chapters, versions, nextChapterId, nextVersionId,
                 response, strictReorders>>
  /\ UNCHANGED stats

restoreVersion_FindChapter(r) ==
  /\ At(r, "restoreVersion", "findChapter")
  /\ LET c == inflight[r].chapterId IN
     IF chapters[c] = Absent THEN Answer(r, 404, inflight[r].versionId)
     ELSE inflight' = [inflight EXCEPT ![r].pc = "snapshot",
                                       ![r].chapter = chapters[c]]
  /\ UNCHANGED graph
  /\ UNCHANGED <<projects, chapters, versions, nextChapterId, nextVersionId,
                 response, strictReorders>>
  /\ UNCHANGED stats

restoreVersion_Snapshot(r) ==
  /\ At(r, "restoreVersion", "snapshot")
  /\ LET q == inflight[r] IN
     IF ~VersionContentValid(q.chapter.content)
     THEN Answer(r, 500, q.versionId) /\ UNCHANGED <<versions, nextVersionId>>
     ELSE /\ versions' = [versions EXCEPT ![nextVersionId] =
                NewVersion(q.chapter, q.chapterId, "Auto-saved before version restore")]
          /\ nextVersionId' = nextVersionId + 1
          /\ Goto(r, "save")
  /\ UNCHANGED graph
  /\ UNCHANGED <<projects, chapters, nextChapterId, response, strictReorders>>
  /\ UNCHANGED stats

\* chapter.save() writes the assigned paths to the stored document whatever
\* it holds by now; of a chapter deleted meanwhile nothing is written and,
\* depending on the mongoose release, the save resolves or rejects.
restoreVersion_Save(r) ==
  /\ At(r, "restoreVersion", "save")
  /\ LET q == inflight[r]
         c == q.chapterId
     IN IF chapters[c] = Absent
        THEN /\ \E status \in {200, 500} : Answer(r, status, q.versionId)
             /\ UNCHANGED chapters
        ELSE /\ chapters' = [chapters EXCEPT ![c] = SaveRestored(@, q.chapter, q.version)]
             /\ Answer(r, 200, q.versionId)
  /\ UNCHANGED graph
  /\ UNCHANGED <<projects, versions, nextChapterId, nextVersionId,
                 response, strictReorders>>
  /\ UNCHANGED stats

(***************************************************************************)
(* SpecRace: the owner u1 of project p1 sends createChapter,               *)
(* updateChapter, createVersion and restoreVersion requests that overlap.  *)
(***************************************************************************)
\* Chapters are created with the text "a" and edited to one of these.
RaceContents == {Text(<<"b">>), Text(<<"a", " ", "b">>)}

RaceBegin ==
  \E r \in Requests :
    \/ createChapter_Begin(r, "u1", "p1", "T", Text(<<"a">>), NoString)
    \/ \E c \in ChapterIds, content \in RaceContents :
         updateChapter_Begin(r, "u1", c, NoString, content, NoString, NoNumber, NoString)
    \/ \E c \in ChapterIds : createVersion_Begin(r, "u1", c)
    \/ \E v \in VersionIds : restoreVersion_Begin(r, "u1", v)

RaceStep ==
  \E r \in Requests :
    \/ createChapter_CheckOwnership(r)
    \/ createChapter_FindHighest(r)
    \/ createChapter_Create(r)
    \/ updateChapter_FindChapter(r)
    \/ updateChapter_CheckOwnership(r)
    \/ updateChapter_Update(r)
    \/ createVersion_FindChapter(r)
    \/ createVersion_CheckOwnership(r)
    \/ createVersion_Create(r)
    \/ restoreVersion_FindVersion(r)
    \/ restoreVersion_CheckOwnership(r)
    \/ restoreVersion_FindChapter(r)
    \/ restoreVersion_Snapshot(r)
    \/ restoreVersion_Save(r)

NextRace == RaceBegin \/ RaceStep

SpecRace == Init /\ [][NextRace]_vars

\* C5: under any interleaving of two concurrent createChapter requests on the
\* same project, the two new chapters do not receive the same orderIndex.
C5_ConcurrentCreatesDiffer ==
  \A r1, r2 \in Requests :
    (/\ r1 # r2
     /\ At(r1, "createChapter", "done") /\ inflight[r1].status = 201
     /\ At(r2, "createChapter", "done") /\ inflight[r2].status = 201
     /\ inflight[r1].projectId = inflight[r2].projectId)
    => inflight[r1].orderIndex # inflight[r2].orderIndex

\* C9: whenever restoreVersion overwrites a chapter's content, the content it
\* overwrites is held by some Version of that chapter afterwards, also when an
\* updateChapter of the chapter runs between restoreVersion's read of the
\* chapter and its write.
C9_RestoreLosesNothing ==
  [][\A r \in Requests :
       (/\ At(r, "restoreVersion", "save")
        /\ restoreVersion_Save(r)
        /\ chapters[inflight[r].chapterId] # Absent
        /\ chapters'[inflight[r].chapterId].content
             # chapters[inflight[r].chapterId].content)
       => \E v \in VersionIds :
            /\ versions'[v] # Absent
            /\ versions'[v].chapterId = inflight[r].chapterId
            /\ versions'[v].content = chapters[inflight[r].chapterId].content]_vars

(***************************************************************************)
(* The codex and its relationship graph.                                   *)
(*                                                                         *)
(* A type label is a sequence of characters; NoLabel stands for a label    *)
(* the request does not carry.  NoId stands for an entity id the request   *)
(* does not carry.                                                         *)
(***************************************************************************)
NoLabel == <<"<undefined>">>
NoId == 0

VALID_ENTITY_TYPES == {"character", "location", "item", "event", "concept"}

\* String.prototype.trim, the setter of RelationshipSchema.type.
RECURSIVE TrimLeft(_)
TrimLeft(s) ==
  IF s # <<>> /\ Head(s) \in Whitespace THEN TrimLeft(Tail(s)) ELSE s

RECURSIVE TrimRight(_)
TrimRight(s) ==
  IF s # <<>> /\ s[Len(s)] \in Whitespace THEN TrimRight(SubSeq(s, 1, Len(s) - 1)) ELSE s

Trim(s) == TrimRight(TrimLeft(s))

\* !type, inverseType || type: a label the request carries and that is not "".
LabelTruthy(label) == label # NoLabel /\ label # <<>>

\* a strength of null; the Number cast turns "" into null as well
NullNumber == -2

\* strength || 5
StrengthOrDefault(strength) ==
  IF strength = NoNumber \/ strength = NullNumber \/ strength = 0 THEN 5 ELSE strength

\* The document Relationship.create builds: the type goes through the trim
\* setter.
NewRelationship(p, sourceId, targetId, type, description, strength) ==
  [projectId |-> p, sourceId |-> sourceId, targetId |-> targetId,
   type |-> Trim(type),
   description |-> IF description = NoLabel THEN NoLabel ELSE Trim(description),
   strength |-> StrengthOrDefault(strength)]

\* The schema's validators: type is required, strength lies in 1..10; the
\* min and max validators let null pass.
RelationshipValid(doc) ==
  /\ doc.type # <<>>
  /\ doc.strength = NullNumber \/ (doc.strength >= 1 /\ doc.strength <= 10)

\* the fields of the unique index
IndexKey(doc) == <<doc.projectId, doc.sourceId, doc.targetId, doc.type>>

\* Variant of UniqueIndexAllows for a collection without the unique index.
UniqueIndexAllows_NoIndex(rels, id, doc) == TRUE

\* The unique index {projectId, sourceId, targetId, type}: the store accepts
\* doc under id when no other document has its key.
UniqueIndexAllows(rels, id, doc) ==
  \A r \in RelationshipIds \ {id} :
    IF rels[r] = Absent THEN TRUE ELSE IndexKey(rels[r]) # IndexKey(doc)

RelationshipsPresent(rels) == {r \in RelationshipIds : rels[r] # Absent}

\* Variant of validateEntity without the project comparison.
validateEntity_AnyProject(ents, entityId, p) ==
  IF ents[entityId] = Absent THEN 404 ELSE 0

\* validateEntity: 404 for an unknown entity, 400 for an entity of another
\* project, 0 when the entity is the project's.
validateEntity(ents, entityId, p) ==
  IF ents[entityId] = Absent THEN 404
  ELSE IF ents[entityId].projectId # p THEN 400
  ELSE 0

\* Variant of ExistingRelationship whose filter compares the type as sent.
ExistingRelationship_Untrimmed(rels, p, sourceId, targetId, type) ==
  {r \in RelationshipIds :
     IF rels[r] = Absent THEN FALSE
     ELSE IndexKey(rels[r]) = <<p, sourceId, targetId, type>>}

\* Relationship.findOne({projectId, sourceId, targetId, type}); the filter's
\* type goes through the trim setter.
ExistingRelationship(rels, p, sourceId, targetId, type) ==
  {r \in RelationshipIds :
     IF rels[r] = Absent THEN FALSE
     ELSE IndexKey(rels[r]) = <<p, sourceId, targetId, Trim(type)>>}

\* The response of a codex or relationship request: its status, its message
\* and its data (the ids it created or addressed, or the records a query
\* returned).
RespondGraph(op, status, message, data) ==
  response' = [op |-> op, status |-> status, message |-> message, data |-> data]

\* the error of checkProjectOwnership
OwnershipError(status) ==
  IF status = 404 THEN "Project not found" ELSE "Not authorized to access this project"

\* the error of validateEntity
EntityError(status) ==
  IF status = 404 THEN "Entity not found" ELSE "Entity does not belong to this project"

NoData == {}

\* the manuscript side of the state, which no codex or relationship
\* handler touches
manuscript == <<projects, chapters, versions, nextChapterId, nextVersionId,
                strictReorders, inflight>>

\* The document Codex.create builds.
NewEntity(p, type, name) == [projectId |-> p, type |-> type, name |-> name]

createEntity(u, p, type, name) ==
  /\ AllIdle
  /\ nextEntityId <= MaxEntities
  /\ LET own == checkProjectOwnership(projects, p, u)
     IN
     IF type \notin VALID_ENTITY_TYPES
     THEN RespondGraph("createEntity", 400, "Entity type must be one of", NoData)
          /\ UNCHANGED <<entities, nextEntityId>>
     ELSE IF own # 0
     THEN RespondGraph("createEntity", own, OwnershipError(own), NoData)
          /\ UNCHANGED <<entities, nextEntityId>>
     ELSE /\ entities' = [entities EXCEPT ![nextEntityId] = NewEntity(p, type, name)]
          /\ nextEntityId' = nextEntityId + 1
          /\ RespondGraph("createEntity", 201, "", {nextEntityId})
  /\ UNCHANGED <<relationships, nextRelationshipId>>
  /\ UNCHANGED manuscript
  /\ UNCHANGED stats

\* Variant of DeleteRelationshipsOf whose filter names the source only.
DeleteRelationshipsOf_SourceOnly(rels, e) ==
  [r \in RelationshipIds |->
     IF rels[r] = Absent THEN Absent
     ELSE IF rels[r].sourceId = e THEN Absent ELSE rels[r]]

\* Relationship.deleteMany({$or: [{sourceId: e}, {targetId: e}]}).
DeleteRelationshipsOf(rels, e) ==
  [r \in RelationshipIds |->
     IF rels[r] = Absent THEN Absent
     ELSE IF rels[r].sourceId = e \/ rels[r].targetId = e THEN Absent ELSE rels[r]]

deleteEntity(u, e) ==
  /\ AllIdle
  /\ IF entities[e] = Absent
     THEN RespondGraph("deleteEntity", 404, "Codex entity not found", NoData)
          /\ UNCHANGED <<entities, relationships>>
     ELSE LET own == checkProjectOwnership(projects, entities[e].projectId, u) IN
          IF own # 0
          THEN RespondGraph("deleteEntity", own, OwnershipError(own), NoData)
               /\ UNCHANGED <<entities, relationships>>
          ELSE /\ entities' = [entities EXCEPT ![e] = Absent]
               /\ relationships' = DeleteRelationshipsOf(relationships, e)
               /\ RespondGraph("deleteEntity", 200, "Codex entity deleted successfully", {e})
  /\ UNCHANGED <<nextEntityId, nextRelationshipId>>
  /\ UNCHANGED manuscript
  /\ UNCHANGED stats

\* The first failing check of createRelationship before it writes, or
\* status 0: required fields, ownership, source, target, then the existing
\* triple.
CreateRelationshipCheck(projs, ents, rels, rq) ==
  LET own == checkProjectOwnership(projs, rq.projectId, rq.userId)
      sourceCheck == validateEntity(ents, rq.sourceId, rq.projectId)
      targetCheck == validateEntity(ents, rq.targetId, rq.projectId)
  IN
  IF rq.sourceId = NoId \/ rq.targetId = NoId \/ ~LabelTruthy(rq.type)
  THEN [status |-> 400, message |-> "sourceId, targetId, and type are required"]
  ELSE IF own # 0
  THEN [status |-> own, message |-> OwnershipError(own)]
  ELSE IF sourceCheck # 0
  THEN [status |-> sourceCheck, message |-> "Source entity: " \o EntityError(sourceCheck)]
  ELSE IF targetCheck # 0
  THEN [status |-> targetCheck, message |-> "Target entity: " \o EntityError(targetCheck)]
  ELSE IF ExistingRelationship(rels, rq.projectId, rq.sourceId, rq.targetId, rq.type) # {}
  THEN [status |-> 400, message |-> "This relationship already exists"]
  ELSE [status |-> 0, message |-> ""]

\* Relationship.create: the store takes the document when the validators and
\* the unique index accept it.
Insertable(rels, id, doc) == RelationshipValid(doc) /\ UniqueIndexAllows(rels, id, doc)

\* Variant of InverseType that ignores the request's inverseType.
InverseType_Same(rq) == rq.type

\* inverseType || type
InverseType(rq) == IF LabelTruthy(rq.inverseType) THEN rq.inverseType ELSE rq.type

\* What createRelationship does with the request rq in a store holding
\* projs, ents and rels, where id is the next fresh _id: the status it
\* answers, the ids of the relationships it returns and the collection it
\* leaves.  The forward edge is stored by its own Relationship.create before
\* the inverse edge is attempted.
CreateRelationshipOutcome(projs, ents, rels, id, rq) ==
  LET check == CreateRelationshipCheck(projs, ents, rels, rq)
      relationship ==
        NewRelationship(rq.projectId, rq.sourceId, rq.targetId, rq.type,
                        rq.description, rq.strength)
      inverseRelationship ==
        NewRelationship(rq.projectId, rq.targetId, rq.sourceId, InverseType(rq),
                        rq.description, rq.strength)
      created == [rels EXCEPT ![id] = relationship]
  IN
  IF check.status # 0
  THEN [status |-> check.status, message |-> check.message, data |-> NoData,
        relationships |-> rels]
  ELSE IF ~Insertable(rels, id, relationship)
  THEN [status |-> 500, message |-> "Server error while creating relationship",
        data |-> NoData, relationships |-> rels]
  ELSE IF ~rq.createInverse
  THEN [status |-> 201, message |-> "", data |-> {id}, relationships |-> created]
  ELSE IF ~Insertable(created, id + 1, inverseRelationship)
  THEN [status |-> 500, message |-> "Server error while creating relationship",
        data |-> NoData, relationships |-> created]
  ELSE [status |-> 201, message |-> "", data |-> {id, id + 1},
        relationships |-> [created EXCEPT ![id + 1] = inverseRelationship]]

\* the request createRelationship reads from req.params, req.user and req.body
CreateRequest(u, p, sourceId, targetId, type, description, strength, createInverse, inverseType) ==
  [userId |-> u, projectId |-> p, sourceId |-> sourceId, targetId |-> targetId,
   type |-> type, description |-> description, strength |-> strength,
   createInverse |-> createInverse, inverseType |-> inverseType]

createRelationship(rq) ==
  /\ AllIdle
  /\ nextRelationshipId + (IF rq.createInverse THEN 1 ELSE 0) <= MaxRelationships
  /\ LET out == CreateRelationshipOutcome(projects, entities, relationships,
                                          nextRelationshipId, rq)
     IN /\ relationships' = out.relationships
        /\ nextRelationshipId' = nextRelationshipId
                                 + Cardinality(RelationshipsPresent(out.relationships))
                                 - Cardinality(RelationshipsPresent(relationships))
        /\ RespondGraph("createRelationship", out.status, out.message, out.data)
  /\ UNCHANGED <<entities, nextEntityId>>
  /\ UNCHANGED manuscript
  /\ UNCHANGED stats

\* Variant of PatchRelationship that also turns the edge around.
PatchRelationship_Reversed(doc, type, description, strength) ==
  [doc EXCEPT !.type = IF type = NoLabel THEN @ ELSE Trim(type),
              !.description = IF description = NoLabel THEN @ ELSE Trim(description),
              !.strength = IF strength = NoNumber THEN @ ELSE strength,
              !.sourceId = doc.targetId,
              !.targetId = doc.sourceId]

\* updateFields applied by $set: a field the request carries replaces the
\* stored one, type and description through the trim setter.
PatchRelationship(doc, type, description, strength) ==
  [doc EXCEPT !.type = IF type = NoLabel THEN @ ELSE Trim(type),
              !.description = IF description = NoLabel THEN @ ELSE Trim(description),
              !.strength = IF strength = NoNumber THEN @ ELSE strength]

updateRelationship(u, r, type, description, strength) ==
  /\ AllIdle
  /\ IF relationships[r] = Absent
     THEN RespondGraph("updateRelationship", 404, "Relationship not found", NoData)
          /\ UNCHANGED relationships
     ELSE LET own == checkProjectOwnership(projects, relationships[r].projectId, u)
              patched == PatchRelationship(relationships[r], type, description, strength)
          IN
          IF own # 0
          THEN RespondGraph("updateRelationship", own, OwnershipError(own), NoData)
               /\ UNCHANGED relationships
          ELSE IF ~Insertable(relationships, r, patched)
          THEN RespondGraph("updateRelationship", 500, "Server error while updating relationship", NoData)
               /\ UNCHANGED relationships
          ELSE /\ relationships' = [relationships EXCEPT ![r] = patched]
               /\ RespondGraph("updateRelationship", 200, "", {r})
  /\ UNCHANGED <<entities, nextEntityId, nextRelationshipId>>
  /\ UNCHANGED manuscript
  /\ UNCHANGED stats

\* Variant of RemoveRelationship that also removes the edges that run the
\* other way between the same two entities.
RemoveRelationship_WithInverse(rels, r) ==
  [x \in RelationshipIds |->
     IF rels[x] = Absent THEN Absent
     ELSE IF x = r \/ (rels[x].sourceId = rels[r].targetId /\ rels[x].targetId = rels[r].sourceId)
     THEN Absent ELSE rels[x]]

\* relationship.remove()
RemoveRelationship(rels, r) == [rels EXCEPT ![r] = Absent]

deleteRelationship(u, r) ==
  /\ AllIdle
  /\ IF relationships[r] = Absent
     THEN RespondGraph("deleteRelationship", 404, "Relationship not found", NoData)
          /\ UNCHANGED relationships
     ELSE LET own == checkProjectOwnership(projects, relationships[r].projectId, u) IN
          IF own # 0
          THEN RespondGraph("deleteRelationship", own, OwnershipError(own), NoData)
               /\ UNCHANGED relationships
          ELSE /\ relationships' = RemoveRelationship(relationships, r)
               /\ RespondGraph("deleteRelationship", 200, "Relationship deleted successfully", {r})
  /\ UNCHANGED <<entities, nextEntityId, nextRelationshipId>>
  /\ UNCHANGED manuscript
  /\ UNCHANGED stats

(***************************************************************************)
(* SpecGraph: the relationship graph of the projects p1 (of u1) and p2 (of *)
(* u2).  Both users create entities; u1 deletes entities and creates,      *)
(* retypes and deletes relationships; requests run one at a time.          *)
(***************************************************************************)
EntityInputs == {[type |-> "character", name |-> "Ann"],
                 [type |-> "location", name |-> "Rome"],
                 [type |-> "planet", name |-> "Mars"],
                 [type |-> NoString, name |-> "Nemo"]}

GraphEntityInputs == {i \in EntityInputs : i.type # "location"}

InverseTypeInputs == {NoLabel, <<"b">>}
\* strengths of requests: none, and one above the schema's maximum
StrengthInputs == {NoNumber, 11}
GraphProjects == {"p1", "p2"}

GraphCreateEntity ==
  \/ \E p \in GraphProjects, i \in GraphEntityInputs : createEntity("u1", p, i.type, i.name)
  \/ \E p \in GraphProjects : createEntity("u2", p, "character", "Bob")
GraphDeleteEntity == \E e \in EntityIds : deleteEntity("u1", e)

\* the well-formed requests of u1 for p1: every pair of entity ids, the
\* types "a" and "b", with and without an inverse and an inverseType
GraphRequests ==
  {CreateRequest("u1", "p1", s, t, type, NoLabel, NoNumber, createInverse, inverseType) :
     s \in EntityIds, t \in EntityIds, type \in {<<"a">>, <<"b">>},
     createInverse \in BOOLEAN, inverseType \in InverseTypeInputs}
\* requests of u1 whose type has trailing white space, whose strength the
\* schema rejects, or that name the project of u2
GraphOddRequests ==
  {CreateRequest("u1", "p1", s, t, <<"a", " ">>, NoLabel, NoNumber, createInverse, NoLabel) :
     s \in EntityIds, t \in EntityIds, createInverse \in BOOLEAN}
  \cup
  {CreateRequest("u1", p, s, t, <<"a">>, NoLabel, strength, FALSE, NoLabel) :
     p \in GraphProjects, s \in EntityIds, t \in EntityIds,
     strength \in StrengthInputs}
\* requests of u1 that lack a required field
GraphRequestsWithoutField ==
  {CreateRequest("u1", "p1", s, t, type, NoLabel, NoNumber, FALSE, NoLabel) :
     s \in {NoId, 1}, t \in {NoId, 1}, type \in {NoLabel, <<>>, <<"a">>}}
  \ {CreateRequest("u1", "p1", 1, 1, <<"a">>, NoLabel, NoNumber, FALSE, NoLabel)}

GraphCreateRelationship == \E rq \in GraphRequests : createRelationship(rq)
GraphCreateOdd == \E rq \in GraphOddRequests : createRelationship(rq)
GraphCreateWithoutField == \E rq \in GraphRequestsWithoutField : createRelationship(rq)
GraphUpdateRelationship ==
  \E r \in RelationshipIds, type \in {NoLabel, <<"a">>, <<"b">>} :
       updateRelationship("u1", r, type, NoLabel, NoNumber)
GraphDeleteRelationship == \E r \in RelationshipIds : deleteRelationship("u1", r)

NextGraph ==
  \/ GraphCreateEntity
  \/ GraphDeleteEntity
  \/ GraphCreateRelationship
  \/ GraphCreateOdd
  \/ GraphCreateWithoutField
  \/ GraphUpdateRelationship
  \/ GraphDeleteRelationship

SpecGraph == Init /\ [][NextGraph]_vars

CreateRequests == GraphRequests \cup GraphOddRequests \cup GraphRequestsWithoutField

\* the keys of the stored relationships
StoredKeys(rels) == {IndexKey(rels[r]) : r \in RelationshipsPresent(rels)}
\* the keys of the edges a request asks for
ForwardKey(rq) == <<rq.projectId, rq.sourceId, rq.targetId, Trim(rq.type)>>
InverseKey(rq) ==
  <<rq.projectId, rq.targetId, rq.sourceId,
    IF rq.inverseType \in {NoLabel, <<>>} THEN Trim(rq.type) ELSE Trim(rq.inverseType)>>

\* what createRelationship(rq) does in the current state
Outcome(rq) ==
  CreateRelationshipOutcome(projects, entities, relationships, nextRelationshipId, rq)

\* C13: in every reachable state, a createRelationship by the project's
\* owner for a (project, source, target, type) that is already stored
\* answers 400 and leaves the relationships as they are, with and without
\* createInverse.
C13_DuplicateRejected ==
  LET stored == StoredKeys(relationships) IN
  \A rq \in CreateRequests :
    (/\ ForwardKey(rq) \in stored
     /\ checkProjectOwnership(projects, rq.projectId, rq.userId) = 0)
    => /\ Outcome(rq).status = 400
       /\ Outcome(rq).relationships = relationships

\* a request was refused as a duplicate of a stored relationship
C13_Witness ==
  /\ response.op = "createRelationship" /\ response.status = 400
  /\ response.message = "This relationship already exists"
  /\ RelationshipsPresent(relationships) # {}

\* the entity is one of project p
EntityOf(ents, e, p) ==
  IF e \notin EntityIds THEN FALSE
  ELSE IF ents[e] = Absent THEN FALSE
  ELSE ents[e].projectId = p

\* the request is one the schema accepts once its checks have passed: its
\* labels are not blank and its strength, if any, lies in 1..10
WellFormed(rq) ==
  /\ rq.type # NoLabel /\ Trim(rq.type) # <<>>
  /\ rq.inverseType \notin {NoLabel, <<>>} => Trim(rq.inverseType) # <<>>
  /\ rq.strength \in {NoNumber} \cup (0..10)

\* C14: in every reachable state, a createRelationship with createInverse by
\* the project's owner, whose source and target are entities of the project
\* and whose two edges (source, target, type) and (target, source, T), with
\* T the inverseType if one is supplied and the type otherwise, are two
\* different edges neither of which is stored, answers 201 and stores
\* exactly these two edges, in the request's project; the stored
\* relationships stay as they are and no two relationships share
\* (project, source, target, type).  The request whose inverse edge
\* coincides with its forward edge (source = target and T = type) is the
\* case of C15.
C14_InverseCreatesTwo ==
  LET stored == StoredKeys(relationships) IN
  \A rq \in CreateRequests :
    (/\ rq.createInverse
     /\ nextRelationshipId + 1 <= MaxRelationships
     /\ WellFormed(rq)
     /\ checkProjectOwnership(projects, rq.projectId, rq.userId) = 0
     /\ EntityOf(entities, rq.sourceId, rq.projectId)
     /\ EntityOf(entities, rq.targetId, rq.projectId)
     /\ ForwardKey(rq) \notin stored
     /\ InverseKey(rq) \notin stored
     /\ InverseKey(rq) # ForwardKey(rq))
    => LET out == Outcome(rq)
           new == RelationshipsPresent(out.relationships)
                    \ RelationshipsPresent(relationships)
       IN /\ out.status = 201
          /\ Cardinality(new) = 2
          /\ out.data = new
          /\ {IndexKey(out.relationships[r]) : r \in new}
               = {ForwardKey(rq), InverseKey(rq)}
          /\ \A r \in RelationshipsPresent(relationships) :
               out.relationships[r] = relationships[r]
          /\ Cardinality(StoredKeys(out.relationships))
               = Cardinality(RelationshipsPresent(out.relationships))

\* the pair "a" from entity 1 to entity 2 and "b" back was created in one
\* call
C14_Witness ==
  /\ response.op = "createRelationship" /\ response.status = 201
  /\ response.data = {1, 2}
  /\ IndexKey(relationships[1]) = <<"p1", 1, 2, <<"a">> >>
  /\ IndexKey(relationships[2]) = <<"p1", 2, 1, <<"b">> >>

\* C15: in every reachable state, a createRelationship with createInverse
\* whose inverse edge (target, source, T) is already stored, or is the
\* request's own forward edge (source = target and T = type), fails and
\* stores nothing: neither the forward nor the inverse edge.
C15_InverseConflictRejectsAll ==
  LET stored == StoredKeys(relationships) IN
  \A rq \in CreateRequests :
    (/\ rq.createInverse
     /\ nextRelationshipId + 1 <= MaxRelationships
     /\ WellFormed(rq)
     /\ checkProjectOwnership(projects, rq.projectId, rq.userId) = 0
     /\ EntityOf(entities, rq.sourceId, rq.projectId)
     /\ EntityOf(entities, rq.targetId, rq.projectId)
     /\ InverseKey(rq) \in stored \/ InverseKey(rq) = ForwardKey(rq))
    => /\ Outcome(rq).status >= 400
       /\ Outcome(rq).relationships = relationships

\* the entity exists, in whatever project
EntityExists(ents, e) ==
  IF e \notin EntityIds THEN FALSE ELSE ents[e] # Absent

\* C16: in every reachable state, a createRelationship by the project's
\* owner that carries its required fields and whose source or target is not
\* an entity of the project stores nothing and answers with the status of
\* the first endpoint, source before target, that is at fault: 404 when
\* that entity does not exist, 400 when it exists in another project.
C16_InvalidEntityRejected ==
  \A rq \in CreateRequests :
    (/\ rq.sourceId # NoId /\ rq.targetId # NoId /\ LabelTruthy(rq.type)
     /\ checkProjectOwnership(projects, rq.projectId, rq.userId) = 0
     /\ ~(/\ EntityOf(entities, rq.sourceId, rq.projectId)
          /\ EntityOf(entities, rq.targetId, rq.projectId)))
    => LET atFault == IF EntityOf(entities, rq.sourceId, rq.projectId)
                      THEN rq.targetId ELSE rq.sourceId
       IN /\ Outcome(rq).status = IF EntityExists(entities, atFault) THEN 400 ELSE 404
          /\ Outcome(rq).relationships = relationships

\* u1 named an entity of p2 as the source of a relationship of p1
C16_Witness ==
  /\ response.op = "createRelationship" /\ response.status = 400
  /\ response.message = "Source entity: Entity does not belong to this project"
  /\ \E e \in EntityIds : EntityOf(entities, e, "p2")
  /\ \E e \in EntityIds : EntityOf(entities, e, "p1")

(***************************************************************************)
(* The read-only views of the graph.                                       *)
(***************************************************************************)
\* what a lookup leaves in place of the data of an entity it did not resolve
Unresolved == [id |-> NoId, name |-> NoString, type |-> NoString]

\* Relationship.find({$or: [{sourceId: e}, {targetId: e}]})
RelationshipsOfEntity(rels, e) ==
  {r \in RelationshipsPresent(rels) : rels[r].sourceId = e \/ rels[r].targetId = e}

\* the ids the lookup resolves: the endpoints of the found relationships
\* without the queried entity, as far as Codex.find finds them
RelatedEntities(ents, rels, e) ==
  {x \in ({rels[r].sourceId : r \in RelationshipsOfEntity(rels, e)}
            \cup {rels[r].targetId : r \in RelationshipsOfEntity(rels, e)}) \ {e} :
     ents[x] # Absent}

\* entityMap[otherEntityId]
EntityMap(ents, related, x) ==
  IF x \in related THEN [id |-> x, name |-> ents[x].name, type |-> ents[x].type]
  ELSE Unresolved

\* Variant of Direction that tests the target.
Direction_ByTarget(rel, e) == IF rel.targetId = e THEN "incoming" ELSE "outgoing"

\* isSource ? 'outgoing' : 'incoming'
Direction(rel, e) == IF rel.sourceId = e THEN "outgoing" ELSE "incoming"

\* isSource ? rel.targetId : rel.sourceId
OtherEntityId(rel, e) == IF rel.sourceId = e THEN rel.targetId ELSE rel.sourceId

\* what getEntityRelationships answers in a store holding projs, ents, rels
EntityRelationshipsOutcome(projs, ents, rels, u, e) ==
  IF ents[e] = Absent
  THEN [status |-> 404, message |-> "Codex entity not found", data |-> NoData]
  ELSE LET own == checkProjectOwnership(projs, ents[e].projectId, u)
           related == RelatedEntities(ents, rels, e)
       IN
       IF own # 0
       THEN [status |-> own, message |-> OwnershipError(own), data |-> NoData]
       ELSE [status |-> 200, message |-> "",
             data |-> {[id |-> r, type |-> rels[r].type,
                        direction |-> Direction(rels[r], e),
                        description |-> rels[r].description,
                        strength |-> rels[r].strength,
                        entity |-> EntityMap(ents, related, OtherEntityId(rels[r], e))] :
                         r \in RelationshipsOfEntity(rels, e)}]

getEntityRelationships(u, e) ==
  /\ AllIdle
  /\ LET out == EntityRelationshipsOutcome(projects, entities, relationships, u, e)
     IN RespondGraph("getEntityRelationships", out.status, out.message,
                     [entityId |-> e, relationships |-> out.data])
  /\ UNCHANGED graph
  /\ UNCHANGED manuscript
  /\ UNCHANGED stats

\* A types query is a sequence of tokens, a type name or a comma; NoLabel
\* stands for a request without the parameter.  types.split(','):
TypeArray(types) == {types[i] : i \in DOMAIN types} \ {","}

\* Codex.find({projectId, ...entityTypeFilter})
NetworkEntities(ents, p, types) ==
  {e \in EntityIds :
     IF ents[e] = Absent THEN FALSE
     ELSE /\ ents[e].projectId = p
          /\ LabelTruthy(types) => ents[e].type \in TypeArray(types)}

\* Variant of NetworkRelationships whose filter names the source only.
NetworkRelationships_SourceOnly(rels, p, entityIds) ==
  {r \in RelationshipsPresent(rels) :
     rels[r].projectId = p /\ rels[r].sourceId \in entityIds}

\* Relationship.find({projectId, sourceId: {$in: entityIds}, targetId: {$in: entityIds}})
NetworkRelationships(rels, p, entityIds) ==
  {r \in RelationshipsPresent(rels) :
     /\ rels[r].projectId = p
     /\ rels[r].sourceId \in entityIds
     /\ rels[r].targetId \in entityIds}

\* Variant of NetworkEdge whose hover text is the type whatever the description.
NetworkEdge_TitleIsType(rels, r) ==
  [id |-> r, from |-> rels[r].sourceId, to |-> rels[r].targetId,
   label |-> rels[r].type, title |-> rels[r].type,
   value |-> IF rels[r].strength \in {0, NullNumber} THEN 1 ELSE rels[r].strength]

\* The edge of the network graph for relationship r: title is
\* description || type and value is strength || 1.
NetworkEdge(rels, r) ==
  [id |-> r, from |-> rels[r].sourceId, to |-> rels[r].targetId,
   label |-> rels[r].type,
   title |-> IF LabelTruthy(rels[r].description)
             THEN rels[r].description ELSE rels[r].type,
   value |-> IF rels[r].strength \in {0, NullNumber} THEN 1 ELSE rels[r].strength]

\* what getNetworkData answers in a store holding projs, ents, rels
NetworkOutcome(projs, ents, rels, u, p, types) ==
  LET own == checkProjectOwnership(projs, p, u)
      entityIds == NetworkEntities(ents, p, types)
  IN
  IF own # 0
  THEN [status |-> own, message |-> OwnershipError(own), nodes |-> {}, edges |-> {}]
  ELSE [status |-> 200, message |-> "",
        nodes |-> {[id |-> e, label |-> ents[e].name, group |-> ents[e].type,
                    title |-> ents[e].name] : e \in entityIds},
        edges |-> {NetworkEdge(rels, r) : r \in NetworkRelationships(rels, p, entityIds)}]

getNetworkData(u, p, types) ==
  /\ AllIdle
  /\ LET out == NetworkOutcome(projects, entities, relationships, u, p, types)
     IN RespondGraph("getNetworkData", out.status, out.message,
                     [projectId |-> p, types |-> types,
                      nodes |-> out.nodes, edges |-> out.edges])
  /\ UNCHANGED graph
  /\ UNCHANGED manuscript
  /\ UNCHANGED stats

\* the step removed entity e and exactly the relationships that had e as
\* source or target
Cascaded(e) ==
  /\ entities[e] # Absent
  /\ entities' = [entities EXCEPT ![e] = Absent]
  /\ \A r \in RelationshipIds :
       relationships'[r] =
         IF relationships[r] = Absent THEN Absent
         ELSE IF relationships[r].sourceId = e \/ relationships[r].targetId = e
         THEN Absent
         ELSE relationships[r]
  /\ \A r \in RelationshipsPresent(relationships') :
       relationships'[r].sourceId # e /\ relationships'[r].targetId # e

\* what getEntityRelationships(e) by u1 answers after the step
LookupAfter(e) ==
  EntityRelationshipsOutcome(projects', entities', relationships', "u1", e)

\* C18 as claimed: a successful deleteEntity(e) removes e and exactly the
\* relationships with source or target e, and getEntityRelationships(e)
\* then returns an empty set.
C18_DeleteCascadesLookupEmpty ==
  [][(response'.op = "deleteEntity" /\ response'.status = 200)
     => \E e \in EntityIds :
          /\ response'.data = {e}
          /\ Cascaded(e)
          /\ LookupAfter(e).status = 200
          /\ LookupAfter(e).data = {}]_vars

\* C18: a successful deleteEntity(e) removes e and exactly the relationships
\* with source or target e, every other relationship staying as it is, so
\* the store's query for the relationships of e matches nothing;
\* getEntityRelationships(e) then answers 404, without data, because e no
\* longer exists.
C18_DeleteCascades ==
  [][(response'.op = "deleteEntity" /\ response'.status = 200)
     => \E e \in EntityIds :
          /\ response'.data = {e}
          /\ Cascaded(e)
          /\ RelationshipsOfEntity(relationships', e) = {}
          /\ LookupAfter(e).status = 404
          /\ LookupAfter(e).data = NoData]_vars

\* entity 1 was deleted: the first relationship, created before the second,
\* is gone and the loop on entity 2 is still stored
C18_Witness ==
  /\ response.op = "deleteEntity" /\ response.status = 200 /\ response.data = {1}
  /\ entities[1] = Absent /\ entities[2] # Absent
  /\ relationships[1] = Absent
  /\ relationships[2] # Absent
  /\ relationships[2].sourceId = 2 /\ relationships[2].targetId = 2

(***************************************************************************)
(* SpecQuery: the views over the graph of p1, whose owner u1 creates       *)
(* characters and locations, relationships of type "a" with and without an *)
(* inverse, deletes both, and queries; u2 creates characters in p2.        *)
(* Requests run one at a time.                                             *)
(***************************************************************************)
QueryEntityInputs == {i \in EntityInputs : i.type \in VALID_ENTITY_TYPES}

\* types queries with the entity types each selects: no parameter, "",
\* "character", "character,location" and "item"
TypeQueries ==
  {[types |-> NoLabel, selects |-> VALID_ENTITY_TYPES],
   [types |-> <<>>, selects |-> VALID_ENTITY_TYPES],
   [types |-> <<"character">>, selects |-> {"character"}],
   [types |-> <<"character", ",", "location">>, selects |-> {"character", "location"}],
   [types |-> <<"item">>, selects |-> {"item"}]}

QueryRequests ==
  {CreateRequest("u1", "p1", s, t, <<"a">>, NoLabel, NoNumber, createInverse, NoLabel) :
     s \in EntityIds, t \in EntityIds, createInverse \in BOOLEAN}

QueryCreateEntity ==
  \/ \E i \in QueryEntityInputs : createEntity("u1", "p1", i.type, i.name)
  \/ createEntity("u2", "p2", "character", "Bob")
QueryDeleteEntity == \E e \in EntityIds : deleteEntity("u1", e)
QueryCreateRelationship == \E rq \in QueryRequests : createRelationship(rq)
QueryDeleteRelationship == \E r \in RelationshipIds : deleteRelationship("u1", r)
QueryLookup == \E e \in EntityIds : getEntityRelationships("u1", e)
QueryNetwork == \E p \in GraphProjects, q \in TypeQueries : getNetworkData("u1", p, q.types)

NextQuery ==
  \/ QueryCreateEntity
  \/ QueryDeleteEntity
  \/ QueryCreateRelationship
  \/ QueryDeleteRelationship
  \/ QueryLookup
  \/ QueryNetwork

SpecQuery == Init /\ [][NextQuery]_vars

\* C19: a successful getNetworkData(p, types) returns one node for each
\* entity of p whose type the query selects (every entity of p when there is
\* no filter) and no other node, and one edge for each relationship of p
\* whose source and target are both among these nodes and no other edge,
\* each edge running from its relationship's source to its target.
C19_NetworkIsInducedSubgraph ==
  (response.op = "getNetworkData" /\ response.status = 200)
  => LET p == response.data.projectId
         selects == (CHOOSE q \in TypeQueries : q.types = response.data.types).selects
         nodeIds == {n.id : n \in response.data.nodes}
         edgeIds == {x.id : x \in response.data.edges}
     IN /\ nodeIds = {e \in EntityIds :
                        EntityOf(entities, e, p) /\ entities[e].type \in selects}
        /\ Cardinality(response.data.nodes) = Cardinality(nodeIds)
        /\ edgeIds = {r \in RelationshipsPresent(relationships) :
                        /\ relationships[r].projectId = p
                        /\ relationships[r].sourceId \in nodeIds
                        /\ relationships[r].targetId \in nodeIds}
        /\ Cardinality(response.data.edges) = Cardinality(edgeIds)
        /\ \A x \in response.data.edges :
             /\ x.from = relationships[x.id].sourceId
             /\ x.to = relationships[x.id].targetId

\* the characters of p1 were asked for: the location is left out, and with
\* it the relationship between the character and the location, while the
\* character's loop is returned
C19_Witness ==
  /\ response.op = "getNetworkData" /\ response.status = 200
  /\ response.data.projectId = "p1" /\ response.data.types = <<"character">>
  /\ Cardinality(response.data.nodes) = 1
  /\ Cardinality(response.data.edges) = 1
  /\ \E e \in EntityIds : EntityOf(entities, e, "p1") /\ entities[e].type = "location"
  /\ Cardinality(RelationshipsPresent(relationships)) = 2

\* the answer lists the relationships with source or target e, once each,
\* tagged outgoing where e is the source and incoming elsewhere
LookupListsIncident(e, listed) ==
  /\ {x.id : x \in listed} =
       {r \in RelationshipsPresent(relationships) :
          relationships[r].sourceId = e \/ relationships[r].targetId = e}
  /\ Cardinality(listed) = Cardinality({x.id : x \in listed})
  /\ \A x \in listed :
       /\ x.type = relationships[x.id].type
       /\ x.direction = IF relationships[x.id].sourceId = e
                         THEN "outgoing" ELSE "incoming"

\* the endpoint of the listed relationship x that the lookup of e reports
OtherEndpoint(e, x) ==
  IF relationships[x.id].sourceId = e
  THEN relationships[x.id].targetId ELSE relationships[x.id].sourceId

\* the listed relationship x carries the name and type of entity o
CarriesEntity(x, o) ==
  x.entity = [id |-> o, name |-> entities[o].name, type |-> entities[o].type]

\* C20 as claimed: a successful getEntityRelationships(e) returns exactly the
\* relationships with source or target e, tagged outgoing where e is the
\* source and incoming otherwise, and every one of them, a relationship from
\* e to e included, carries the name and type of its other endpoint.
C20_LookupEnrichesEveryEdge ==
  (response.op = "getEntityRelationships" /\ response.status = 200)
  => LET e == response.data.entityId
         listed == response.data.relationships
     IN /\ LookupListsIncident(e, listed)
        /\ \A x \in listed : CarriesEntity(x, OtherEndpoint(e, x))

\* C20: a successful getEntityRelationships(e) returns exactly the
\* relationships with source or target e, tagged outgoing where e is the
\* source and incoming otherwise; a relationship between e and another
\* entity carries that entity's name and type, and a relationship from e to
\* e is returned once, tagged outgoing, without entity data.
C20_LookupEnrichesOtherEntities ==
  (response.op = "getEntityRelationships" /\ response.status = 200)
  => LET e == response.data.entityId
         listed == response.data.relationships
     IN /\ LookupListsIncident(e, listed)
        /\ \A x \in listed :
             IF OtherEndpoint(e, x) = e
             THEN x.entity = Unresolved /\ x.direction = "outgoing"
             ELSE CarriesEntity(x, OtherEndpoint(e, x))

\* the lookup of an entity with a loop and a relationship arriving from a
\* location
C20_Witness ==
  /\ response.op = "getEntityRelationships" /\ response.status = 200
  /\ \E x, y \in response.data.relationships :
       /\ x.direction = "outgoing" /\ x.entity = Unresolved
       /\ y.direction = "incoming" /\ y.entity.type = "location"
       /\ y.entity.name = "Rome"

\* C35: in every state the wordCount of every stored chapter is countWords
\* of its stored content, and the wordCount of every stored version is
\* countWords of that version's content.
C35_WordCountMatchesContent ==
  /\ \A c \in ChapterIds :
       chapters[c] # Absent => chapters[c].wordCount = countWords(chapters[c].content)
  /\ \A v \in VersionIds :
       versions[v] # Absent => versions[v].wordCount = countWords(versions[v].content)

(***************************************************************************)
(* createRelationship and deleteEntity as they run under concurrent        *)
(* requests: every await is a step of its own and the steps of different   *)
(* requests interleave.  A request in a slot of inflight holds its body,   *)
(* the entity it loaded and the number of inserts it may still make.       *)
(***************************************************************************)
\* what the stepped codex and relationship handlers leave alone besides the
\* collections they name
untouched == <<projects, chapters, versions, nextChapterId, nextVersionId,
               strictReorders, response>>

GraphRequest(op, u, pc) ==
  [op |-> op, pc |-> pc, userId |-> u, body |-> Absent, entityId |-> NoId,
   entity |-> Absent, toInsert |-> 0, created |-> {}, status |-> 0, message |-> ""]

\* The answered request keeps its status, its message and the ids of the
\* relationships its response returns.
AnswerGraph(r, status, message, data) ==
  inflight' = [inflight EXCEPT ![r] =
     [GraphRequest(inflight[r].op, inflight[r].userId, "done") EXCEPT
        !.status = status, !.message = message, !.created = data]]

\* inserts that the requests in progress may still make
PendingInserts ==
  LET Pending(r) == IF Free(r) THEN 0 ELSE inflight[r].toInsert
      RECURSIVE Sum(_)
      Sum(n) == IF n = 0 THEN 0 ELSE Pending(n) + Sum(n - 1)
  IN Sum(MaxRequests)

\* createRelationship, part_004:1311-1430.
createRelationship_Begin(r, rq) ==
  /\ Free(r)
  /\ nextRelationshipId - 1 + PendingInserts + (IF rq.createInverse THEN 2 ELSE 1)
       <= MaxRelationships
  /\ IF rq.sourceId = NoId \/ rq.targetId = NoId \/ ~LabelTruthy(rq.type)
     THEN inflight' = [inflight EXCEPT ![r] =
            [GraphRequest("createRelationship", rq.userId, "done") EXCEPT
               !.status = 400,
               !.message = "sourceId, targetId, and type are required"]]
     ELSE inflight' = [inflight EXCEPT ![r] =
            [GraphRequest("createRelationship", rq.userId, "checkOwnership") EXCEPT
               !.body = rq, !.toInsert = IF rq.createInverse THEN 2 ELSE 1]]
  /\ UNCHANGED graph
  /\ UNCHANGED untouched
  /\ UNCHANGED stats

createRelationship_CheckOwnership(r) ==
  /\ At(r, "createRelationship", "checkOwnership")
  /\ LET own == checkProjectOwnership(projects, inflight[r].body.projectId,
                                      inflight[r].userId)
     IN IF own # 0 THEN AnswerGraph(r, own, OwnershipError(own), {})
        ELSE Goto(r, "validateSource")
  /\ UNCHANGED graph
  /\ UNCHANGED untouched
  /\ UNCHANGED stats

createRelationship_ValidateSource(r) ==
  /\ At(r, "createRelationship", "validateSource")
  /\ LET sourceCheck == validateEntity(entities, inflight[r].body.sourceId,
                                       inflight[r].body.projectId)
     IN IF sourceCheck # 0
        THEN AnswerGraph(r, sourceCheck, "Source entity: " \o EntityError(sourceCheck), {})
        ELSE Goto(r, "validateTarget")
  /\ UNCHANGED graph
  /\ UNCHANGED untouched
  /\ UNCHANGED stats

createRelationship_ValidateTarget(r) ==
  /\ At(r, "createRelationship", "validateTarget")
  /\ LET targetCheck == validateEntity(entities, inflight[r].body.targetId,
                                       inflight[r].body.projectId)
     IN IF targetCheck # 0
        THEN AnswerGraph(r, targetCheck, "Target entity: " \o EntityError(targetCheck), {})
        ELSE Goto(r, "findExisting")
  /\ UNCHANGED graph
  /\ UNCHANGED untouched
  /\ UNCHANGED stats

createRelationship_FindExisting(r) ==
  /\ At(r, "createRelationship", "findExisting")
  /\ LET rq == inflight[r].body IN
     IF ExistingRelationship(relationships, rq.projectId, rq.sourceId, rq.targetId,
                             rq.type) # {}
     THEN AnswerGraph(r, 400, "This relationship already exists", {})
     ELSE Goto(r, "create")
  /\ UNCHANGED graph
  /\ UNCHANGED untouched
  /\ UNCHANGED stats

\* One Relationship.create of a request in progress: the store takes doc
\* under the next fresh _id and the request moves to pc, or the store
\* refuses it and the catch answers 500.
InsertStep(r, doc, pc) ==
  IF ~Insertable(relationships, nextRelationshipId, doc)
  THEN /\ AnswerGraph(r, 500, "Server error while creating relationship", {})
       /\ UNCHANGED <<relationships, nextRelationshipId>>
  ELSE /\ relationships' = [relationships EXCEPT ![nextRelationshipId] = doc]
       /\ nextRelationshipId' = nextRelationshipId + 1
       /\ inflight' = [inflight EXCEPT
                         ![r].pc = pc,
                         ![r].toInsert = IF pc = "createInverse" THEN 1 ELSE 0,
                         ![r].created = @ \cup {nextRelationshipId}]

createRelationship_Create(r) ==
  /\ At(r, "createRelationship", "create")
  /\ LET rq == inflight[r].body IN
     InsertStep(r, NewRelationship(rq.projectId, rq.sourceId, rq.targetId, rq.type,
                                   rq.description, rq.strength),
                IF rq.createInverse THEN "createInverse" ELSE "findSource")
  /\ UNCHANGED <<entities, nextEntityId>>
  /\ UNCHANGED untouched
  /\ UNCHANGED stats

createRelationship_CreateInverse(r) ==
  /\ At(r, "createRelationship", "createInverse")
  /\ LET rq == inflight[r].body IN
     InsertStep(r, NewRelationship(rq.projectId, rq.targetId, rq.sourceId,
                                   InverseType(rq), rq.description, rq.strength),
                "findSource")
  /\ UNCHANGED <<entities, nextEntityId>>
  /\ UNCHANGED untouched
  /\ UNCHANGED stats

\* Codex.findById(sourceId) for the response
createRelationship_FindSource(r) ==
  /\ At(r, "createRelationship", "findSource")
  /\ inflight' = [inflight EXCEPT ![r].pc = "findTarget",
                                  ![r].entity = entities[inflight[r].body.sourceId]]
  /\ UNCHANGED graph
  /\ UNCHANGED untouched
  /\ UNCHANGED stats

\* Codex.findById(targetId) and the response, which reads source._id and
\* target._id: an entity that is no longer found makes the handler throw,
\* and the catch answers 500.
createRelationship_FindTarget(r) ==
  /\ At(r, "createRelationship", "findTarget")
  /\ IF inflight[r].entity = Absent \/ entities[inflight[r].body.targetId] = Absent
     THEN AnswerGraph(r, 500, "Server error while creating relationship", {})
     ELSE AnswerGraph(r, 201, "", inflight[r].created)
  /\ UNCHANGED graph
  /\ UNCHANGED untouched
  /\ UNCHANGED stats

\* deleteEntity, part_004:222-265.
deleteEntity_Begin(r, u, e) ==
  /\ Free(r)
  /\ inflight' = [inflight EXCEPT ![r] =
        [GraphRequest("deleteEntity", u, "findEntity") EXCEPT !.entityId = e]]
  /\ UNCHANGED graph
  /\ UNCHANGED untouched
  /\ UNCHANGED stats

deleteEntity_FindEntity(r) ==
  /\ At(r, "deleteEntity", "findEntity")
  /\ IF entities[inflight[r].entityId] = Absent
     THEN AnswerGraph(r, 404, "Codex entity not found", {})
     ELSE inflight' = [inflight EXCEPT ![r].pc = "checkOwnership",
                                      ![r].entity = entities[inflight[r].entityId]]
  /\ UNCHANGED graph
  /\ UNCHANGED untouched
  /\ UNCHANGED stats

deleteEntity_CheckOwnership(r) ==
  /\ At(r, "deleteEntity", "checkOwnership")
  /\ LET own == checkProjectOwnership(projects, inflight[r].entity.projectId,
                                      inflight[r].userId)
     IN IF own # 0 THEN AnswerGraph(r, own, OwnershipError(own), {})
        ELSE Goto(r, "remove")
  /\ UNCHANGED graph
  /\ UNCHANGED untouched
  /\ UNCHANGED stats

\* entity.remove()
deleteEntity_Remove(r) ==
  /\ At(r, "deleteEntity", "remove")
  /\ entities' = [entities EXCEPT ![inflight[r].entityId] = Absent]
  /\ Goto(r, "deleteRelationships")
  /\ UNCHANGED <<relationships, nextEntityId, nextRelationshipId>>
  /\ UNCHANGED untouched
  /\ UNCHANGED stats

\* Relationship.deleteMany and the response
deleteEntity_DeleteRelationships(r) ==
  /\ At(r, "deleteEntity", "deleteRelationships")
  /\ relationships' = DeleteRelationshipsOf(relationships, inflight[r].entityId)
  /\ AnswerGraph(r, 200, "Codex entity deleted successfully", {})
  /\ UNCHANGED <<entities, nextEntityId, nextRelationshipId>>
  /\ UNCHANGED untouched
  /\ UNCHANGED stats

(***************************************************************************)
(* SpecGraphRace: u1 creates characters in p1 while no request is in       *)
(* progress; createRelationship and deleteEntity requests of u1 for p1     *)
(* overlap.                                                                *)
(***************************************************************************)
RaceRequests ==
  {CreateRequest("u1", "p1", s, t, <<"a">>, NoLabel, NoNumber, createInverse, NoLabel) :
     s \in EntityIds, t \in EntityIds, createInverse \in BOOLEAN}

GraphRaceCreateEntity == createEntity("u1", "p1", "character", "Ann")

GraphRaceBegin ==
  \E r \in Requests :
    \/ \E rq \in RaceRequests : createRelationship_Begin(r, rq)
    \/ \E e \in EntityIds : deleteEntity_Begin(r, "u1", e)

GraphRaceStep ==
  \E r \in Requests :
    \/ createRelationship_CheckOwnership(r)
    \/ createRelationship_ValidateSource(r)
    \/ createRelationship_ValidateTarget(r)
    \/ createRelationship_FindExisting(r)
    \/ createRelationship_Create(r)
    \/ createRelationship_CreateInverse(r)
    \/ createRelationship_FindSource(r)
    \/ createRelationship_FindTarget(r)
    \/ deleteEntity_FindEntity(r)
    \/ deleteEntity_CheckOwnership(r)
    \/ deleteEntity_Remove(r)
    \/ deleteEntity_DeleteRelationships(r)

NextGraphRace == GraphRaceCreateEntity \/ GraphRaceBegin \/ GraphRaceStep

SpecGraphRace == Init /\ [][NextGraphRace]_vars

\* C17: in every state in which no request is in progress, the source and
\* the target of every stored relationship are stored entities of the
\* relationship's project.
C17_EndpointsExist ==
  AllIdle
  => \A r \in RelationshipsPresent(relationships) :
       /\ EntityOf(entities, relationships[r].sourceId, relationships[r].projectId)
       /\ EntityOf(entities, relationships[r].targetId, relationships[r].projectId)

(***************************************************************************)
(* SpecWords: the content sizer applied to content payloads of every       *)
(* shape, one call per step; response holds the payload and the count.     *)
(***************************************************************************)
MaxTextLen == 4

\* an object whose blocks property is truthy and not an array: blocks.map is
\* not a function, the catch returns 0
BadBlocks == [kind |-> "badblocks"]

Hello == <<"h", "e", "l", "l", "o", " ", " ", " ", "w", "o", "r", "l", "d">>

WordTexts == SeqsUpTo({"a", " ", "\n"}, MaxTextLen) \cup {Hello}

BlockInputs ==
  {Block(t) : t \in SeqsUpTo({"a", " "}, 2) \cup {<<"a", " ", "b">>, <<"c">>}}
    \cup {NoText}

WordInputs ==
  {Undefined, Null, OtherObject, BadBlocks}
    \cup {Text(t) : t \in WordTexts}
    \cup {Blocks(bs) : bs \in SeqsUpTo(BlockInputs, MaxSeqLen)}

Size(content) ==
  /\ response' = [op |-> "countWords", content |-> content,
                  wordCount |-> countWords(content)]
  /\ UNCHANGED graph
  /\ UNCHANGED <<projects, chapters, versions, nextChapterId, nextVersionId,
                 strictReorders, inflight>>
  /\ UNCHANGED stats

NextWords == \E content \in WordInputs : Size(content)

SpecWords == Init /\ [][NextWords]_vars

\* The positions of a text where a maximal run of non-whitespace characters
\* starts.
RunStarts(t) ==
  {i \in DOMAIN t : t[i] \notin Whitespace /\ (i = 1 \/ t[i - 1] \in Whitespace)}

HasText(block) == block # NoText

\* C22: countWords returns an integer >= 0: of a plain text the number of
\* maximal runs of non-whitespace characters, of a blocks document the sum of
\* that number over the text of every block, and 0 of absent content and of
\* every other shape, a blocks document with a block that has no text
\* included.
C22_CountWordsTotal ==
  response.op = "countWords"
  => LET content == response.content
         n == response.wordCount
     IN /\ n \in Nat
        /\ IF content.kind = "text"
           THEN n = Cardinality(RunStarts(content.text))
           ELSE IF content.kind = "blocks"
                   /\ \A i \in DOMAIN content.blocks : HasText(content.blocks[i])
           THEN n = Cardinality({<<i, j>> \in (DOMAIN content.blocks) \X (1..MaxTextLen) :
                                   j \in RunStarts(content.blocks[i].text)})
           ELSE n = 0

\* the blocks document {blocks: [{text: "a b"}, {text: "c"}]} counts 3
C22_Witness ==
  /\ response.op = "countWords"
  /\ response.content = Blocks(<<Block(<<"a", " ", "b">>), Block(<<"c">>)>>)
  /\ response.wordCount = 3

(***************************************************************************)
(* SpecEdges: the edges between entities 1 and 2 of project p1.  The owner *)
(* u1 creates the entities and the edges, with and without an inverse;     *)
(* both users send updateRelationship and deleteRelationship requests;     *)
(* requests run one at a time.                                             *)
(***************************************************************************)
EdgeRequests ==
  {CreateRequest("u1", "p1", s, t, type, NoLabel, NoNumber, createInverse, NoLabel) :
     s \in {1, 2}, t \in {1, 2}, type \in {<<"a">>, <<"b">>}, createInverse \in BOOLEAN}

\* req.body of updateRelationship: the handler reads type, description and
\* strength from it; a body may also carry sourceId, targetId and projectId.
UpdateBodies ==
  {[type |-> type, description |-> rest[1], strength |-> rest[2],
    sourceId |-> rest[3], targetId |-> rest[4], projectId |-> rest[5]] :
     type \in {NoLabel, <<"a">>, <<"b">>},
     rest \in {<<NoLabel, NoNumber, NoId, NoId, "">>, <<<<"d">>, 7, 2, 1, "p2">>}}

\* the bodies sent by u2, who does not own p1
ForeignBodies == {body \in UpdateBodies : body.type = <<"b">> /\ body.strength = 7}

EdgesCreateEntity == createEntity("u1", "p1", "character", "Ann")
EdgesCreateRelationship == \E rq \in EdgeRequests : createRelationship(rq)
\* const { type, description, strength } = req.body
EdgesUpdateRelationship ==
  \E u \in UserIds, r \in RelationshipIds :
    \E body \in IF u = "u1" THEN UpdateBodies ELSE ForeignBodies :
      updateRelationship(u, r, body.type, body.description, body.strength)
EdgesDeleteRelationship ==
  \E u \in UserIds, r \in RelationshipIds : deleteRelationship(u, r)

NextEdges ==
  \/ EdgesCreateEntity
  \/ EdgesCreateRelationship
  \/ EdgesUpdateRelationship
  \/ EdgesDeleteRelationship

SpecEdges == Init /\ [][NextEdges]_vars

\* the edge r, patched with the type of body, would have the key of another
\* stored edge
Collides(rels, r, body) ==
  /\ rels[r] # Absent
  /\ body.type # NoLabel
  /\ \E x \in RelationshipsPresent(rels) \ {r} :
       IndexKey(rels[x]) = <<rels[r].projectId, rels[r].sourceId, rels[r].targetId, Trim(body.type)>>

\* C25 (as stated): an updateRelationship by the owner whose type gives edge
\* A the project, source, target and type of another stored edge B succeeds
\* (200) and A carries the new type.
C25_CollidingUpdateSucceeds ==
  [][\A r \in RelationshipIds, body \in UpdateBodies :
       (/\ response'.op = "updateRelationship"
        /\ Collides(relationships, r, body)
        /\ updateRelationship("u1", r, body.type, body.description, body.strength))
       => /\ response'.status = 200
          /\ relationships'[r].type = Trim(body.type)]_vars

\* C25 (amended): such an update is refused by the unique index: the handler
\* answers 500 and every stored edge, A included, is as before.
C25_CollidingUpdateRefused ==
  [][\A r \in RelationshipIds, body \in UpdateBodies :
       (/\ response'.op = "updateRelationship"
        /\ Collides(relationships, r, body)
        /\ updateRelationship("u1", r, body.type, body.description, body.strength))
       => /\ response'.status = 500
          /\ relationships' = relationships]_vars

\* the edges 1 -> 2 of types "a" and "b" after the update of one to the type
\* of the other was refused
C25_Witness ==
  /\ response.op = "updateRelationship" /\ response.status = 500
  /\ \E r1, r2 \in RelationshipsPresent(relationships) :
       /\ IndexKey(relationships[r1]) = <<"p1", 1, 2, <<"a">>>>
       /\ IndexKey(relationships[r2]) = <<"p1", 1, 2, <<"b">>>>

\* C26: no step changes the sourceId, targetId or projectId of a stored
\* edge; an updateRelationship changes at most the type, description and
\* strength of the edge it addresses, whatever else its body carries, and
\* changes no other edge.
C26_EndpointsImmutable ==
  [][/\ \A r \in RelationshipIds :
          (relationships[r] # Absent /\ relationships'[r] # Absent)
          => /\ relationships'[r].sourceId = relationships[r].sourceId
             /\ relationships'[r].targetId = relationships[r].targetId
             /\ relationships'[r].projectId = relationships[r].projectId
     /\ \A u \in UserIds, r \in RelationshipIds, body \in UpdateBodies :
          (/\ response'.op = "updateRelationship"
           /\ relationships' # relationships
           /\ updateRelationship(u, r, body.type, body.description, body.strength))
          => /\ \A x \in RelationshipIds \ {r} : relationships'[x] = relationships[x]
             /\ (relationships[r] = Absent) = (relationships'[r] = Absent)]_vars

\* the edge 1 -> 2 after an update that set its description and strength and
\* whose body also carried sourceId 2, targetId 1 and projectId p2
C26_Witness ==
  /\ response.op = "updateRelationship" /\ response.status = 200
  /\ \E r \in response.data :
       /\ relationships[r].description = <<"d">>
       /\ relationships[r].strength = 7
       /\ relationships[r].type = <<"b">>
       /\ relationships[r].sourceId = 1 /\ relationships[r].targetId = 2
       /\ relationships[r].projectId = "p1"

\* C27: a successful deleteRelationship removes the edge it addresses and
\* leaves every other edge, the edge that runs the other way between the
\* same entities included, stored and unchanged.
C27_DeleteRemovesOneEdge ==
  [][\A u \in UserIds, r \in RelationshipIds :
       (/\ response'.op = "deleteRelationship" /\ response'.status = 200
        /\ deleteRelationship(u, r))
       => /\ relationships[r] # Absent
          /\ relationships'[r] = Absent
          /\ \A x \in RelationshipIds \ {r} : relationships'[x] = relationships[x]]_vars

\* edge 1 was deleted and edge 2, from entity 2 to entity 1, is still stored
C27_Witness ==
  /\ response.op = "deleteRelationship" /\ response.status = 200
  /\ response.data = {1}
  /\ relationships[1] = Absent
  /\ relationships[2] # Absent
  /\ relationships[2].sourceId = 2 /\ relationships[2].targetId = 1

(***************************************************************************)
(* The project controller's deleteProject and the handlers that read or    *)
(* patch one document or list the documents of a project, each run alone.  *)
(***************************************************************************)
\* the chapter, version, entity and relationship collections
stores == <<chapters, versions, entities, relationships>>

\* the fresh-id counters, the chapter-order bookkeeping and the requests in flight
counters == <<nextChapterId, nextVersionId, nextEntityId, nextRelationshipId,
              strictReorders, inflight>>

RespondProject(status, p) ==
  response' = [op |-> "deleteProject", status |-> status, id |-> 0,
               projectId |-> p, chapterOrder |-> <<>>]

\* Chapter.deleteMany({projectId}), Codex.deleteMany({projectId})
DeleteOfProject(docs, p) ==
  [d \in DOMAIN docs |->
     IF docs[d] = Absent THEN Absent
     ELSE IF docs[d].projectId = p THEN Absent ELSE docs[d]]

\* deleteProject, part_005:158-200: the project, its chapters and its codex
\* entries are deleted; no statement deletes versions or relationships.
deleteProject(u, p) ==
  /\ AllIdle
  /\ IF projects[p] = Absent
     THEN RespondProject(404, p) /\ UNCHANGED <<projects, chapters, entities>>
     ELSE IF projects[p].userId # u
     THEN RespondProject(403, p) /\ UNCHANGED <<projects, chapters, entities>>
     ELSE /\ projects' = [projects EXCEPT ![p] = Absent]
          /\ chapters' = DeleteOfProject(chapters, p)
          /\ entities' = DeleteOfProject(entities, p)
          /\ RespondProject(200, p)
  /\ UNCHANGED <<versions, relationships>>
  /\ UNCHANGED counters
  /\ UNCHANGED stats

\* a handler that addresses the documents of project p and only reads:
\* ownership, then the query
ReadOfProject(op, u, p, found) ==
  /\ AllIdle
  /\ LET own == checkProjectOwnership(projects, p, u) IN
     IF own # 0
     THEN RespondGraph(op, own, OwnershipError(own), NoData)
     ELSE RespondGraph(op, 200, "", found)
  /\ UNCHANGED <<projects, stores, counters>>
  /\ UNCHANGED stats

\* a handler that addresses one document by id and only reads: the document,
\* then ownership of its project
ReadOfDocument(op, u, docs, id, notFound) ==
  /\ AllIdle
  /\ IF docs[id] = Absent
     THEN RespondGraph(op, 404, notFound, NoData)
     ELSE LET own == checkProjectOwnership(projects, docs[id].projectId, u) IN
          IF own # 0
          THEN RespondGraph(op, own, OwnershipError(own), NoData)
          ELSE RespondGraph(op, 200, "", {id})
  /\ UNCHANGED <<projects, stores, counters>>
  /\ UNCHANGED stats

\* Chapter.find({projectId}).sort({orderIndex: 1}): the chapters with their indices
Listing(chs, p) == {<<c, chs[c].orderIndex>> : c \in ChaptersOf(chs, p)}

getChapters(u, p) == ReadOfProject("getChapters", u, p, Listing(chapters, p))

getChapter(u, c) == ReadOfDocument("getChapter", u, chapters, c, "Chapter not found")

\* getVersions addresses a chapter and lists its versions
getVersions(u, c) ==
  /\ AllIdle
  /\ IF chapters[c] = Absent
     THEN RespondGraph("getVersions", 404, "Chapter not found", NoData)
     ELSE LET own == checkProjectOwnership(projects, chapters[c].projectId, u) IN
          IF own # 0
          THEN RespondGraph("getVersions", own, OwnershipError(own), NoData)
          ELSE RespondGraph("getVersions", 200, "",
                            {v \in VersionsPresent(versions) : versions[v].chapterId = c})
  /\ UNCHANGED <<projects, stores, counters>>
  /\ UNCHANGED stats

getVersion(u, v) == ReadOfDocument("getVersion", u, versions, v, "Version not found")

\* getEntities without type, search or tags
getEntities(u, p) ==
  ReadOfProject("getEntities", u, p,
                {e \in EntityIds : IF entities[e] = Absent THEN FALSE
                                   ELSE entities[e].projectId = p})

getEntity(u, e) == ReadOfDocument("getEntity", u, entities, e, "Codex entity not found")

\* searchEntities: a request without query is answered 400 before the
\* ownership check; names are atoms here, a name matches the query it equals
searchEntities(u, p, query) ==
  IF query = NoString \/ query = ""
  THEN /\ AllIdle
       /\ RespondGraph("searchEntities", 400, "Search query is required", NoData)
       /\ UNCHANGED <<projects, stores, counters, stats>>
  ELSE ReadOfProject("searchEntities", u, p,
                     {e \in EntityIds : IF entities[e] = Absent THEN FALSE
                                        ELSE /\ entities[e].projectId = p
                                             /\ entities[e].name = query})

\* updateEntity: name is the one field of the body the model keeps
updateEntity(u, e, name) ==
  /\ AllIdle
  /\ IF entities[e] = Absent
     THEN RespondGraph("updateEntity", 404, "Codex entity not found", NoData)
          /\ UNCHANGED entities
     ELSE LET own == checkProjectOwnership(projects, entities[e].projectId, u) IN
          IF own # 0
          THEN RespondGraph("updateEntity", own, OwnershipError(own), NoData)
               /\ UNCHANGED entities
          ELSE /\ entities' = [entities EXCEPT ![e].name = IF name = NoString THEN @ ELSE name]
               /\ RespondGraph("updateEntity", 200, "", {e})
  /\ UNCHANGED <<projects, chapters, versions, relationships>>
  /\ UNCHANGED counters
  /\ UNCHANGED stats

getRelationships(u, p) ==
  ReadOfProject("getRelationships", u, p,
                {r \in RelationshipsPresent(relationships) : relationships[r].projectId = p})

getRelationship(u, r) ==
  ReadOfDocument("getRelationship", u, relationships, r, "Relationship not found")

(***************************************************************************)
(* SpecGate: every chapter, version, entity and relationship handler and   *)
(* deleteProject, called by both users on every project and document;      *)
(* requests run one at a time.  A run creates at most MaxDocuments         *)
(* documents by its create requests, and u2 sends none for the project p2  *)
(* it owns, so that every document is one of p1, nor is p2 deleted.        *)
(***************************************************************************)
MaxDocuments == 2

DocumentsCreated ==
  (nextChapterId - 1) + (nextVersionId - 1) + (nextEntityId - 1) + (nextRelationshipId - 1)

GateOrders == {<<>>, <<1>>}
GateEntityTypes == {"character", "planet"}
GateQueries == {NoString, "Ann"}
GateTypes == {NoLabel, <<"a">>}

\* createRelationship requests for a loop at entity 1, with and without type
GateRequest(u, p, type) ==
  CreateRequest(u, p, 1, 1, type, NoLabel, NoNumber, FALSE, NoLabel)

GateTargets == (UserIds \X ProjectIds) \ {<<"u2", "p2">>}

GateCreate ==
  /\ DocumentsCreated < MaxDocuments
  /\ \/ \E t \in GateTargets : createChapter(t[1], t[2], "T", Text(<<"a">>), NoString)
     \/ \E u \in UserIds, c \in ChapterIds : createVersion(u, c, NoString)
     \/ \E t \in GateTargets, type \in GateEntityTypes : createEntity(t[1], t[2], type, "Ann")
     \/ \E t \in GateTargets, type \in GateTypes :
          createRelationship(GateRequest(t[1], t[2], type))

GateProject ==
  \E u \in UserIds, p \in ProjectIds :
    \/ getChapters(u, p)
    \/ \E isArray \in BOOLEAN, order \in GateOrders : reorderChapters(u, p, isArray, order)
    \/ getEntities(u, p)
    \/ \E query \in GateQueries : searchEntities(u, p, query)
    \/ getRelationships(u, p)
    \/ getNetworkData(u, p, NoLabel)
    \/ p # "p2" /\ deleteProject(u, p)

GateChapter ==
  \E u \in UserIds, c \in ChapterIds :
    \/ getChapter(u, c)
    \/ updateChapter(u, c, "T2", Undefined, NoString, NoNumber, NoString)
    \/ deleteChapter(u, c)
    \/ getVersions(u, c)

GateVersion ==
  \E u \in UserIds, v \in VersionIds :
    \/ getVersion(u, v)
    \/ restoreVersion(u, v)

GateEntity ==
  \E u \in UserIds, e \in EntityIds :
    \/ getEntity(u, e)
    \/ updateEntity(u, e, "Bea")
    \/ deleteEntity(u, e)
    \/ getEntityRelationships(u, e)

GateRelationship ==
  \E u \in UserIds, r \in RelationshipIds :
    \/ getRelationship(u, r)
    \/ updateRelationship(u, r, <<"b">>, NoLabel, NoNumber)
    \/ deleteRelationship(u, r)

NextGate ==
  \/ GateCreate
  \/ GateProject
  \/ GateChapter
  \/ GateVersion
  \/ GateEntity
  \/ GateRelationship

SpecGate == Init /\ [][NextGate]_vars

\* the caller u does not own project p, which may not exist
NotOwner(u, p) == IF projects[p] = Absent THEN TRUE ELSE projects[p].userId # u

\* the step answered Forbidden, or Not-Found for a project that does not
\* exist, and left the four stores as they were
Refused(p) ==
  /\ response'.status = IF projects[p] = Absent THEN 404 ELSE 403
  /\ UNCHANGED stores

\* the step answered Bad-Request and left the four stores as they were
RefusedAsMalformed ==
  /\ response'.status = 400
  /\ UNCHANGED stores

\* what the claim expects of a request by a caller who does not own p: a
\* refusal by the ownership check; when alsoMalformed is FALSE, a request
\* whose body the handler rejects first is expected to be answered 400
Gated(p, wellFormed, alsoMalformed) ==
  IF wellFormed \/ alsoMalformed THEN Refused(p) ELSE RefusedAsMalformed

\* every step that is a request by a caller who does not own the project
\* its target resolves to is answered as Gated says
Gating(alsoMalformed) ==
  /\ (response'.op = "createChapter") =>
       \A u \in UserIds, p \in ProjectIds :
         (NotOwner(u, p) /\ createChapter(u, p, "T", Text(<<"a">>), NoString))
         => Gated(p, TRUE, alsoMalformed)
  /\ (response'.op = "getChapters") =>
       \A u \in UserIds, p \in ProjectIds :
         (NotOwner(u, p) /\ getChapters(u, p)) => Gated(p, TRUE, alsoMalformed)
  /\ (response'.op = "reorderChapters") =>
       \A u \in UserIds, p \in ProjectIds, isArray \in BOOLEAN, order \in GateOrders :
         (NotOwner(u, p) /\ reorderChapters(u, p, isArray, order))
         => Gated(p, isArray, alsoMalformed)
  /\ (response'.op = "getEntities") =>
       \A u \in UserIds, p \in ProjectIds :
         (NotOwner(u, p) /\ getEntities(u, p)) => Gated(p, TRUE, alsoMalformed)
  /\ (response'.op = "searchEntities") =>
       \A u \in UserIds, p \in ProjectIds, query \in GateQueries :
         (NotOwner(u, p) /\ searchEntities(u, p, query))
         => Gated(p, query # NoString, alsoMalformed)
  /\ (response'.op = "createEntity") =>
       \A u \in UserIds, p \in ProjectIds, type \in GateEntityTypes :
         (NotOwner(u, p) /\ createEntity(u, p, type, "Ann"))
         => Gated(p, type \in VALID_ENTITY_TYPES, alsoMalformed)
  /\ (response'.op = "getRelationships") =>
       \A u \in UserIds, p \in ProjectIds :
         (NotOwner(u, p) /\ getRelationships(u, p)) => Gated(p, TRUE, alsoMalformed)
  /\ (response'.op = "getNetworkData") =>
       \A u \in UserIds, p \in ProjectIds :
         (NotOwner(u, p) /\ getNetworkData(u, p, NoLabel)) => Gated(p, TRUE, alsoMalformed)
  /\ (response'.op = "createRelationship") =>
       \A u \in UserIds, p \in ProjectIds, type \in GateTypes :
         (NotOwner(u, p) /\ createRelationship(GateRequest(u, p, type)))
         => Gated(p, type # NoLabel, alsoMalformed)
  /\ (response'.op \in {"getChapter", "updateChapter", "deleteChapter",
                        "createVersion", "getVersions"}) =>
     \A u \in UserIds, c \in ChapterIds :
       IF chapters[c] = Absent THEN TRUE
       ELSE (/\ NotOwner(u, chapters[c].projectId)
             /\ \/ response'.op = "getChapter" /\ getChapter(u, c)
                \/ response'.op = "updateChapter"
                   /\ updateChapter(u, c, "T2", Undefined, NoString, NoNumber, NoString)
                \/ response'.op = "deleteChapter" /\ deleteChapter(u, c)
                \/ response'.op = "createVersion" /\ createVersion(u, c, NoString)
                \/ response'.op = "getVersions" /\ getVersions(u, c))
            => Gated(chapters[c].projectId, TRUE, alsoMalformed)
  /\ (response'.op \in {"getVersion", "restoreVersion"}) =>
     \A u \in UserIds, v \in VersionIds :
       IF versions[v] = Absent THEN TRUE
       ELSE (/\ NotOwner(u, versions[v].projectId)
             /\ \/ response'.op = "getVersion" /\ getVersion(u, v)
                \/ response'.op = "restoreVersion" /\ restoreVersion(u, v))
            => Gated(versions[v].projectId, TRUE, alsoMalformed)
  /\ (response'.op \in {"getEntity", "updateEntity", "deleteEntity",
                        "getEntityRelationships"}) =>
     \A u \in UserIds, e \in EntityIds :
       IF entities[e] = Absent THEN TRUE
       ELSE (/\ NotOwner(u, entities[e].projectId)
             /\ \/ response'.op = "getEntity" /\ getEntity(u, e)
                \/ response'.op = "updateEntity" /\ updateEntity(u, e, "Bea")
                \/ response'.op = "deleteEntity" /\ deleteEntity(u, e)
                \/ response'.op = "getEntityRelationships" /\ getEntityRelationships(u, e))
            => Gated(entities[e].projectId, TRUE, alsoMalformed)
  /\ (response'.op \in {"getRelationship", "updateRelationship",
                        "deleteRelationship"}) =>
     \A u \in UserIds, r \in RelationshipIds :
       IF relationships[r] = Absent THEN TRUE
       ELSE (/\ NotOwner(u, relationships[r].projectId)
             /\ \/ response'.op = "getRelationship" /\ getRelationship(u, r)
                \/ response'.op = "updateRelationship"
                   /\ updateRelationship(u, r, <<"b">>, NoLabel, NoNumber)
                \/ response'.op = "deleteRelationship" /\ deleteRelationship(u, r))
            => Gated(relationships[r].projectId, TRUE, alsoMalformed)

\* C21 (as stated): every chapter, version, entity and relationship request
\* by a caller who does not own the project its target resolves to is
\* answered 403, or 404 when the project does not exist, and leaves the
\* chapter, version, entity and relationship stores unchanged.
C21_NonOwnerAlwaysRefused == [][Gating(TRUE)]_vars

\* C21 (amended): as stated, except that a request whose body the handler
\* rejects before its ownership check (a chapterOrder that is no array, an
\* invalid entity type, a search without query, a relationship without a
\* required field) is answered 400; it too leaves the stores unchanged.
C21_NonOwnerRefused == [][Gating(FALSE)]_vars

\* u2, who does not own p1, was refused the deletion of chapter 1 of p1,
\* which is stored with its version
C21_Witness ==
  /\ response.op = "deleteChapter" /\ response.status = 403 /\ response.id = 1
  /\ chapters[1] # Absent /\ chapters[1].projectId = "p1"
  /\ projects["p1"] # Absent /\ projects["p1"].userId = "u1"
  /\ versions[1] # Absent /\ versions[1].chapterId = 1

\* the documents of a collection that carry projectId p
OfProject(docs, p) ==
  {d \in DOMAIN docs : IF docs[d] = Absent THEN FALSE ELSE docs[d].projectId = p}

\* C23: when deleteProject(p) has answered 200, no Chapter, Codex entity,
\* Version or Relationship with projectId p is stored.
C23_DeleteProjectCascades ==
  (response.op = "deleteProject" /\ response.status = 200)
  => /\ OfProject(chapters, response.projectId) = {}
     /\ OfProject(entities, response.projectId) = {}
     /\ OfProject(versions, response.projectId) = {}
     /\ OfProject(relationships, response.projectId) = {}

\* C24: restoreVersion answers 404 for a version that does not exist, 403
\* for a version whose project exists and is not the caller's, and 404 for
\* a version whose chapter no longer exists; in each case it creates no
\* Version and changes no Chapter.
C24_RestoreFailures ==
  [][(response'.op = "restoreVersion") =>
     \A u \in UserIds, v \in VersionIds :
       restoreVersion(u, v) =>
         IF versions[v] = Absent
         THEN response'.status = 404 /\ UNCHANGED <<versions, chapters>>
         ELSE IF projects[versions[v].projectId] # Absent /\ NotOwner(u, versions[v].projectId)
         THEN response'.status = 403 /\ UNCHANGED <<versions, chapters>>
         ELSE IF chapters[versions[v].chapterId] = Absent
         THEN response'.status = 404 /\ UNCHANGED <<versions, chapters>>
         ELSE TRUE]_vars

\* version 1 outlived its chapter, and a restoreVersion of it was answered
\* 404
C24_Witness ==
  /\ response.op = "restoreVersion" /\ response.status = 404 /\ response.id = 1
  /\ versions[1] # Absent
  /\ chapters[versions[1].chapterId] = Absent

(***************************************************************************)
(* deleteChapter, getChapters and reorderChapters as they run under        *)
(* concurrent requests: one step per await, as for the handlers above.     *)
(***************************************************************************)
\* deleteChapter, part_004:921-974.
deleteChapter_Begin(r, u, c) ==
  /\ Free(r)
  /\ inflight' = [inflight EXCEPT ![r] =
        [Request("deleteChapter", u) EXCEPT !.pc = "findChapter", !.chapterId = c]]
  /\ UNCHANGED graph
  /\ UNCHANGED <<projects, chapters, versions, nextChapterId, nextVersionId,
                 response, strictReorders>>
  /\ UNCHANGED stats

deleteChapter_FindChapter(r) ==
  /\ At(r, "deleteChapter", "findChapter")
  /\ LET c == inflight[r].chapterId IN
     IF chapters[c] = Absent THEN Answer(r, 404, c)
     ELSE inflight' = [inflight EXCEPT ![r].pc = "checkOwnership",
                                       ![r].chapter = chapters[c]]
  /\ UNCHANGED graph
  /\ UNCHANGED <<projects, chapters, versions, nextChapterId, nextVersionId,
                 response, strictReorders>>
  /\ UNCHANGED stats

deleteChapter_CheckOwnership(r) ==
  /\ At(r, "deleteChapter", "checkOwnership")
  /\ LET own == checkProjectOwnership(projects, inflight[r].chapter.projectId,
                                      inflight[r].userId)
     IN IF own # 0 THEN Answer(r, own, inflight[r].chapterId) ELSE Goto(r, "delete")
  /\ UNCHANGED graph
  /\ UNCHANGED <<projects, chapters, versions, nextChapterId, nextVersionId,
                 response, strictReorders>>
  /\ UNCHANGED stats

\* Chapter.findByIdAndDelete: of a chapter deleted meanwhile it returns null
\* and the handler goes on.
deleteChapter_Delete(r) ==
  /\ At(r, "deleteChapter", "delete")
  /\ chapters' = [chapters EXCEPT ![inflight[r].chapterId] = Absent]
  /\ Goto(r, "deleteVersions")
  /\ UNCHANGED graph
  /\ UNCHANGED <<projects, versions, nextChapterId, nextVersionId,
                 response, strictReorders>>
  /\ UNCHANGED stats

deleteChapter_DeleteVersions(r) ==
  /\ At(r, "deleteChapter", "deleteVersions")
  /\ versions' = DeleteVersionsOf(versions, inflight[r].chapterId)
  /\ Goto(r, "renumber")
  /\ UNCHANGED graph
  /\ UNCHANGED <<projects, chapters, nextChapterId, nextVersionId,
                 response, strictReorders>>
  /\ UNCHANGED stats

\* Chapter.updateMany with the projectId and the orderIndex of the chapter as
\* it was loaded.
deleteChapter_Renumber(r) ==
  /\ At(r, "deleteChapter", "renumber")
  /\ chapters' = DecrementAbove(chapters, inflight[r].chapter.projectId,
                                inflight[r].chapter.orderIndex)
  /\ Answer(r, 200, inflight[r].chapterId)
  /\ UNCHANGED graph
  /\ UNCHANGED <<projects, versions, nextChapterId, nextVersionId,
                 response, strictReorders>>
  /\ UNCHANGED stats

\* The answered getChapters request keeps the chapters it was sent.
Listed(u, p, status, data) ==
  [op |-> "getChapters", pc |-> "done", userId |-> u, projectId |-> p,
   status |-> status, id |-> 0, data |-> data]

\* getChapters, part_004:739-770.
getChapters_Begin(r, u, p) ==
  /\ Free(r)
  /\ inflight' = [inflight EXCEPT ![r] =
        [Request("getChapters", u) EXCEPT !.pc = "checkOwnership", !.projectId = p]]
  /\ UNCHANGED graph
  /\ UNCHANGED <<projects, chapters, versions, nextChapterId, nextVersionId,
                 response, strictReorders>>
  /\ UNCHANGED stats

getChapters_CheckOwnership(r) ==
  /\ At(r, "getChapters", "checkOwnership")
  /\ LET q == inflight[r]
         own == checkProjectOwnership(projects, q.projectId, q.userId)
     IN IF own # 0
        THEN inflight' = [inflight EXCEPT ![r] = Listed(q.userId, q.projectId, own, {})]
        ELSE Goto(r, "find")
  /\ UNCHANGED graph
  /\ UNCHANGED <<projects, chapters, versions, nextChapterId, nextVersionId,
                 response, strictReorders>>
  /\ UNCHANGED stats

getChapters_Find(r) ==
  /\ At(r, "getChapters", "find")
  /\ LET q == inflight[r] IN
     inflight' = [inflight EXCEPT ![r] =
        Listed(q.userId, q.projectId, 200, Listing(chapters, q.projectId))]
  /\ UNCHANGED graph
  /\ UNCHANGED <<projects, chapters, versions, nextChapterId, nextVersionId,
                 response, strictReorders>>
  /\ UNCHANGED stats

\* The reorderChapters request: its body and the positions of chapterOrder
\* whose findOneAndUpdate is still to run.
ReorderRequest(u, p, chapterOrder) ==
  [op |-> "reorderChapters", pc |-> "checkOwnership", userId |-> u, projectId |-> p,
   chapterOrder |-> chapterOrder, pending |-> {}, status |-> 0, id |-> 0]

AnswerReorder(r, status) ==
  inflight' = [inflight EXCEPT ![r].pc = "done", ![r].status = status, ![r].pending = {}]

\* reorderChapters, part_004:979-1022.  A body that is not an array is
\* answered before the first await.
reorderChapters_Begin(r, u, p, isArray, chapterOrder) ==
  /\ Free(r)
  /\ inflight' = [inflight EXCEPT ![r] =
        IF isArray THEN ReorderRequest(u, p, chapterOrder)
        ELSE [ReorderRequest(u, p, chapterOrder) EXCEPT !.pc = "done", !.status = 400]]
  /\ UNCHANGED graph
  /\ UNCHANGED <<projects, chapters, versions, nextChapterId, nextVersionId,
                 response, strictReorders>>
  /\ UNCHANGED stats

\* After the ownership check every position's findOneAndUpdate is issued.
reorderChapters_CheckOwnership(r) ==
  /\ At(r, "reorderChapters", "checkOwnership")
  /\ LET own == checkProjectOwnership(projects, inflight[r].projectId, inflight[r].userId)
     IN IF own # 0 THEN AnswerReorder(r, own)
        ELSE inflight' = [inflight EXCEPT ![r].pc = "update",
                                          ![r].pending = DOMAIN inflight[r].chapterOrder]
  /\ UNCHANGED graph
  /\ UNCHANGED <<projects, chapters, versions, nextChapterId, nextVersionId,
                 response, strictReorders>>
  /\ UNCHANGED stats

\* Chapter.findOneAndUpdate({_id: chapterOrder[i], projectId}, {orderIndex: i}),
\* one document at a time and in the order the store takes them.
reorderChapters_Update(r, i) ==
  /\ At(r, "reorderChapters", "update")
  /\ i \in inflight[r].pending
  /\ LET c == inflight[r].chapterOrder[i] IN
     chapters' = IF c \in ChaptersOf(chapters, inflight[r].projectId)
                 THEN [chapters EXCEPT ![c].orderIndex = i]
                 ELSE chapters
  /\ inflight' = [inflight EXCEPT ![r].pending = @ \ {i}]
  /\ UNCHANGED graph
  /\ UNCHANGED <<projects, versions, nextChapterId, nextVersionId,
                 response, strictReorders>>
  /\ UNCHANGED stats

\* Promise.all has resolved.
reorderChapters_Respond(r) ==
  /\ At(r, "reorderChapters", "update")
  /\ inflight[r].pending = {}
  /\ AnswerReorder(r, 200)
  /\ UNCHANGED graph
  /\ UNCHANGED <<projects, chapters, versions, nextChapterId, nextVersionId,
                 response, strictReorders>>
  /\ UNCHANGED stats

(***************************************************************************)
(* SpecDeleteRace: the owner u1 of project p1 sends createChapter,         *)
(* deleteChapter and getChapters requests.  Requests arrive alone or as a  *)
(* pair of different operations that arrive together, and the steps of a   *)
(* pair interleave in every order.                                         *)
(***************************************************************************)
FirstStep(op) == IF op = "deleteChapter" THEN "findChapter" ELSE "checkOwnership"

\* Every other request is answered, or is a request of another operation that
\* has arrived and not taken a step.
ArrivesWith(r, op) ==
  \A o \in Requests \ {r} :
    IF Free(o) THEN TRUE
    ELSE inflight[o].op # op /\ inflight[o].pc = FirstStep(inflight[o].op)

DeleteRaceBegin ==
  \E r \in Requests :
    \/ ArrivesWith(r, "createChapter")
         /\ createChapter_Begin(r, "u1", "p1", "T", Undefined, NoString)
    \/ \E c \in ChapterIds :
         ArrivesWith(r, "deleteChapter") /\ deleteChapter_Begin(r, "u1", c)
    \/ ArrivesWith(r, "getChapters") /\ getChapters_Begin(r, "u1", "p1")

DeleteRaceStep ==
  \E r \in Requests :
    \/ createChapter_CheckOwnership(r)
    \/ createChapter_FindHighest(r)
    \/ createChapter_Create(r)
    \/ deleteChapter_FindChapter(r)
    \/ deleteChapter_CheckOwnership(r)
    \/ deleteChapter_Delete(r)
    \/ deleteChapter_DeleteVersions(r)
    \/ deleteChapter_Renumber(r)
    \/ getChapters_CheckOwnership(r)
    \/ getChapters_Find(r)

NextDeleteRace == DeleteRaceBegin \/ DeleteRaceStep

SpecDeleteRace == Init /\ [][NextDeleteRace]_vars

\* A deleteChapter that has deleted its chapter and not yet renumbered.
Deleting(d) ==
  At(d, "deleteChapter", "deleteVersions") \/ At(d, "deleteChapter", "renumber")

\* The chapters before the delete d began to write, and after it has finished.
BeforeDelete(d) == [chapters EXCEPT ![inflight[d].chapterId] = inflight[d].chapter]
AfterDelete(d) ==
  DecrementAbove(chapters, inflight[d].chapter.projectId, inflight[d].chapter.orderIndex)

\* C28: what a getChapters, or the highest-index read of a createChapter,
\* reads while a deleteChapter of the same project is between its delete and
\* its renumbering is what it would read before the delete or after it:
\* never the chapters without the deleted one and with the old indices.
C28_ReadersSeeNoHalfDelete ==
  [][\A r, d \in Requests :
       (Deleting(d) /\ inflight[r] # Absent
          /\ inflight[r].projectId = inflight[d].chapter.projectId)
       => LET p == inflight[r].projectId IN
          /\ (At(r, "getChapters", "find") /\ inflight'[r].pc = "done")
             => inflight'[r].data \in {Listing(BeforeDelete(d), p),
                                       Listing(AfterDelete(d), p)}
          /\ (At(r, "createChapter", "findHighest") /\ inflight'[r].pc = "create")
             => inflight'[r].orderIndex \in {NextOrderIndex(BeforeDelete(d), p),
                                             NextOrderIndex(AfterDelete(d), p)}]_vars

\* C29: when a createChapter and a deleteChapter that ran interleaved on a
\* project with the indices 1..N have both been answered, the indices of the
\* project are 1..N' again, without gap or duplicate.
C29_CreateDeleteSerialized == AllIdle => Dense(chapters, "p1")

(***************************************************************************)
(* SpecReorderRace: the owner u1 of project p1 creates chapters one at a   *)
(* time and sends reorderChapters requests, each with a permutation of the *)
(* project's chapters, alone or two that arrive together.                  *)
(***************************************************************************)
ReorderRaceCreate == createChapter("u1", "p1", "T", Undefined, NoString)

ReorderRaceBegin ==
  \E r \in Requests :
    /\ \A o \in Requests \ {r} :
         IF Free(o) THEN TRUE ELSE inflight[o].pc = FirstStep(inflight[o].op)
    /\ \/ \E q \in PermutationsOf(ChaptersOf(chapters, "p1")) :
            reorderChapters_Begin(r, "u1", "p1", TRUE, q)
       \/ reorderChapters_Begin(r, "u1", "p1", FALSE, <<>>)

ReorderRaceStep ==
  \E r \in Requests :
    \/ reorderChapters_CheckOwnership(r)
    \/ \E i \in 1..MaxChapters : reorderChapters_Update(r, i)
    \/ reorderChapters_Respond(r)

NextReorderRace == ReorderRaceCreate \/ ReorderRaceBegin \/ ReorderRaceStep

SpecReorderRace == Init /\ [][NextReorderRace]_vars

\* An answered reorderChapters whose list names every chapter of its project once.
Reordered(r) ==
  /\ inflight[r] # Absent
  /\ inflight[r].op = "reorderChapters"
  /\ inflight[r].pc = "done" /\ inflight[r].status = 200
  /\ IsPermutationOf(inflight[r].chapterOrder, ChaptersOf(chapters, inflight[r].projectId))

\* Every chapter of the list has the index of its position.
OrderedAs(order) == \A i \in DOMAIN order : chapters[order[i]].orderIndex = i

\* C30: when two reorderChapters requests of one project, each with a
\* permutation of the project's chapters, have both been answered, the
\* chapters are ordered as one of the two lists says.
C30_ReorderLastWriteWins ==
  \A r1, r2 \in Requests :
    (r1 # r2 /\ Reordered(r1) /\ Reordered(r2)
       /\ inflight[r1].projectId = inflight[r2].projectId)
    => OrderedAs(inflight[r1].chapterOrder) \/ OrderedAs(inflight[r2].chapterOrder)

(***************************************************************************)
(* SpecDoubleDelete: the owner u1 of project p1 creates chapters and moves *)
(* them with updateChapter one request at a time, and sends deleteChapter  *)
(* requests that overlap.                                                  *)
(***************************************************************************)
\* orderIndex bodies of updateChapter
MoveInputs == 1..(MaxChapters + 1)

DoubleDeleteCreate == createChapter("u1", "p1", "T", Undefined, NoString)

DoubleDeleteMove ==
  \E c \in ChapterIds, n \in MoveInputs :
    updateChapter("u1", c, NoString, Undefined, NoString, n, NoString)

DoubleDeleteBegin ==
  \E r \in Requests, c \in ChapterIds : deleteChapter_Begin(r, "u1", c)

DoubleDeleteStep ==
  \E r \in Requests :
    \/ deleteChapter_FindChapter(r)
    \/ deleteChapter_CheckOwnership(r)
    \/ deleteChapter_Delete(r)
    \/ deleteChapter_DeleteVersions(r)
    \/ deleteChapter_Renumber(r)

NextDoubleDelete ==
  DoubleDeleteCreate \/ DoubleDeleteMove \/ DoubleDeleteBegin \/ DoubleDeleteStep

SpecDoubleDelete == Init /\ [][NextDoubleDelete]_vars

\* Request o is a deleteChapter of chapter c that has renumbered and answered.
Renumbered(o, c) ==
  /\ inflight[o] # Absent
  /\ inflight[o].op = "deleteChapter" /\ inflight[o].id = c
  /\ inflight[o].pc = "done" /\ inflight[o].status = 200

\* C31: of two overlapping deleteChapter requests for the same chapter at
\* most one renumbers: when one of them has decremented the indices above
\* the chapter's, the renumbering step of the other changes no index, so
\* that every such index is decremented by 1 in total and not by 2.
C31_DoubleDeleteRenumbersOnce ==
  [][\A r, o \in Requests :
       (r # o /\ At(r, "deleteChapter", "renumber") /\ inflight'[r].pc = "done"
          /\ Renumbered(o, inflight[r].chapterId))
       => chapters' = chapters]_vars

(***************************************************************************)
(* getRelationships as it runs under concurrent requests, and              *)
(* SpecPairRace: u1 creates characters in p1 while no request is in        *)
(* progress; createRelationship requests of u1, with and without           *)
(* createInverse, overlap getRelationships requests of u1.                 *)
(***************************************************************************)
\* getRelationships, part_004:1245-1306.
getRelationships_Begin(r, u, p) ==
  /\ Free(r)
  /\ inflight' = [inflight EXCEPT ![r] =
        [GraphRequest("getRelationships", u, "checkOwnership") EXCEPT
           !.body = [projectId |-> p]]]
  /\ UNCHANGED graph
  /\ UNCHANGED untouched
  /\ UNCHANGED stats

getRelationships_CheckOwnership(r) ==
  /\ At(r, "getRelationships", "checkOwnership")
  /\ LET own == checkProjectOwnership(projects, inflight[r].body.projectId,
                                      inflight[r].userId)
     IN IF own # 0 THEN AnswerGraph(r, own, OwnershipError(own), {})
        ELSE Goto(r, "find")
  /\ UNCHANGED graph
  /\ UNCHANGED untouched
  /\ UNCHANGED stats

\* Relationship.find({projectId}); the entities of the edges are looked up
\* afterwards and change nothing of the list.
getRelationships_Find(r) ==
  /\ At(r, "getRelationships", "find")
  /\ AnswerGraph(r, 200, "",
        {x \in RelationshipsPresent(relationships) :
           relationships[x].projectId = inflight[r].body.projectId})
  /\ UNCHANGED graph
  /\ UNCHANGED untouched
  /\ UNCHANGED stats

PairRaceCreateEntity == createEntity("u1", "p1", "character", "Ann")

PairRaceBegin ==
  \E r \in Requests :
    \/ \E rq \in RaceRequests : createRelationship_Begin(r, rq)
    \/ getRelationships_Begin(r, "u1", "p1")

PairRaceStep ==
  \E r \in Requests :
    \/ createRelationship_CheckOwnership(r)
    \/ createRelationship_ValidateSource(r)
    \/ createRelationship_ValidateTarget(r)
    \/ createRelationship_FindExisting(r)
    \/ createRelationship_Create(r)
    \/ createRelationship_CreateInverse(r)
    \/ createRelationship_FindSource(r)
    \/ createRelationship_FindTarget(r)
    \/ getRelationships_CheckOwnership(r)
    \/ getRelationships_Find(r)

NextPairRace == PairRaceCreateEntity \/ PairRaceBegin \/ PairRaceStep

SpecPairRace == Init /\ [][NextPairRace]_vars

\* C32: the list a getRelationships reads while a createRelationship with
\* createInverse has inserted its forward edge and not yet its inverse
\* edge does not hold the forward edge: the pair is read together or not at
\* all.
C32_PairVisibleTogether ==
  [][\A r, w \in Requests :
       (At(r, "getRelationships", "find") /\ inflight'[r].pc = "done"
          /\ At(w, "createRelationship", "createInverse"))
       => inflight'[r].created \cap inflight[w].created = {}]_vars

(***************************************************************************)
(* SpecAbort: requests of the owner u1 of project p1 that run one at a     *)
(* time, where an awaited store operation of deleteChapter or              *)
(* restoreVersion may reject (the store or the connection fails) and the   *)
(* second insert of createRelationship may be refused by the unique index. *)
(***************************************************************************)
\* The awaited operation at the request's position rejects: the handler's
\* catch answers 500 (part_004:966-973, 1203-1211); it undoes nothing.
StoreFails(r) ==
  /\ ~Free(r)
  /\ inflight[r].op \in {"deleteChapter", "restoreVersion"}
  /\ Answer(r, 500, IF inflight[r].op = "deleteChapter"
                    THEN inflight[r].chapterId ELSE inflight[r].versionId)
  /\ UNCHANGED graph
  /\ UNCHANGED <<projects, chapters, versions, nextChapterId, nextVersionId,
                 response, strictReorders>>
  /\ UNCHANGED stats

AbortSetUp ==
  \/ createChapter("u1", "p1", "T", Text(<<"a">>), NoString)
  \/ \E c \in ChapterIds : createVersion("u1", c, NoString)
  \/ createEntity("u1", "p1", "character", "Ann")

\* the request takes the first slot
AbortBegin ==
  /\ AllIdle
  /\ \/ \E c \in ChapterIds : deleteChapter_Begin(1, "u1", c)
     \/ \E v \in VersionIds : restoreVersion_Begin(1, "u1", v)
     \/ \E rq \in RaceRequests : rq.createInverse /\ createRelationship_Begin(1, rq)

AbortStep ==
  \E r \in Requests :
    \/ deleteChapter_FindChapter(r)
    \/ deleteChapter_CheckOwnership(r)
    \/ deleteChapter_Delete(r)
    \/ deleteChapter_DeleteVersions(r)
    \/ deleteChapter_Renumber(r)
    \/ restoreVersion_FindVersion(r)
    \/ restoreVersion_CheckOwnership(r)
    \/ restoreVersion_FindChapter(r)
    \/ restoreVersion_Snapshot(r)
    \/ restoreVersion_Save(r)
    \/ createRelationship_CheckOwnership(r)
    \/ createRelationship_ValidateSource(r)
    \/ createRelationship_ValidateTarget(r)
    \/ createRelationship_FindExisting(r)
    \/ createRelationship_Create(r)
    \/ createRelationship_CreateInverse(r)
    \/ createRelationship_FindSource(r)
    \/ createRelationship_FindTarget(r)
    \/ StoreFails(r)

NextAbort == AbortSetUp \/ AbortBegin \/ AbortStep

SpecAbort == Init /\ [][NextAbort]_vars

\* The chapters as they were before the deleteChapter r, which runs alone,
\* made its first write: its findByIdAndDelete is behind it from
\* deleteVersions on.
ChaptersBefore(r) ==
  IF inflight[r].pc \in {"deleteVersions", "renumber"}
  THEN [chapters EXCEPT ![inflight[r].chapterId] = inflight[r].chapter]
  ELSE chapters

\* The versions as they were before the restoreVersion r, which runs alone,
\* made its first write: at save its snapshot is the last version inserted.
VersionsBefore(r) ==
  IF inflight[r].pc = "save"
  THEN [versions EXCEPT ![nextVersionId - 1] = Absent]
  ELSE versions

\* C33: a deleteChapter, restoreVersion or createRelationship that is
\* answered 500 because a step of its sequence failed leaves the store as
\* it was before the request: the deleted chapter is stored again and the
\* indices of its project are 1..N, the safety snapshot is not stored, and
\* no edge the request inserted is stored.
C33_FailureAborts ==
  [][\A r \in Requests :
       (~Free(r) /\ inflight'[r].pc = "done" /\ inflight'[r].status = 500)
       => /\ inflight[r].op = "deleteChapter"
             => chapters' = ChaptersBefore(r) /\ Dense(chapters', "p1")
          /\ inflight[r].op = "restoreVersion"
             => versions' = VersionsBefore(r) /\ chapters' = chapters
          /\ inflight[r].op = "createRelationship"
             => \A x \in inflight[r].created : relationships'[x] = Absent]_vars

(***************************************************************************)
(* SpecStrength: u1 creates characters and relationships in p1 and patches *)
(* the relationships, with every kind of strength a body can carry;        *)
(* requests run one at a time.                                             *)
(***************************************************************************)
\* strength of a body: none, null, 0, a number of the range and one above it
StrengthBodies == {NoNumber, NullNumber, 0, 7, 11}

StrengthRequests ==
  {CreateRequest("u1", "p1", 1, t, <<"a">>, NoLabel, strength, FALSE, NoLabel) :
     t \in EntityIds, strength \in StrengthBodies}

StrengthCreateEntity == createEntity("u1", "p1", "character", "Ann")
StrengthCreate == \E rq \in StrengthRequests : createRelationship(rq)
StrengthUpdate ==
  \E r \in RelationshipIds, strength \in StrengthBodies :
    updateRelationship("u1", r, NoLabel, NoLabel, strength)

NextStrength == StrengthCreateEntity \/ StrengthCreate \/ StrengthUpdate

SpecStrength == Init /\ [][NextStrength]_vars

\* C36: the strength of every stored relationship is an integer from 1 to 10.
C36_StrengthInRange ==
  \A r \in RelationshipsPresent(relationships) : relationships[r].strength \in 1..10

(***************************************************************************)
(* SpecNetwork: u1 creates characters in p1 and relationships from the     *)
(* first character, with a description and with and without a strength,    *)
(* patches them with a null strength or a blank description, and both      *)
(* users ask for the network graph of p1.  Requests run one at a time.     *)
(***************************************************************************)
NetworkRequests ==
  {CreateRequest("u1", "p1", 1, t, <<"a">>, <<"d">>, strength, FALSE, NoLabel) :
     t \in EntityIds, strength \in {NoNumber, 7}}

\* bodies of updateRelationship: {strength: null} and {description: " "}
NetworkPatches ==
  {[description |-> NoLabel, strength |-> NullNumber],
   [description |-> <<" ">>, strength |-> NoNumber]}

NetworkCreateEntity == createEntity("u1", "p1", "character", "Ann")
NetworkCreateRelationship == \E rq \in NetworkRequests : createRelationship(rq)
NetworkUpdateRelationship ==
  \E r \in RelationshipIds, body \in NetworkPatches :
    updateRelationship("u1", r, NoLabel, body.description, body.strength)
NetworkQuery == \E u \in UserIds : getNetworkData(u, "p1", NoLabel)

NextNetwork ==
  \/ NetworkCreateEntity
  \/ NetworkCreateRelationship
  \/ NetworkUpdateRelationship
  \/ NetworkQuery

SpecNetwork == Init /\ [][NextNetwork]_vars

\* A getNetworkData step changes no entity and no relationship, and every
\* edge it returns carries the stored type as label, the stored source and
\* target, the description, or the type where the description is missing or
\* empty, as title, and the stored strength as value; with orOne, the value
\* of an edge whose stored strength is null is 1.
NetworkView(orOne) ==
  (response'.op = "getNetworkData") =>
    /\ entities' = entities
    /\ relationships' = relationships
    /\ response'.status = 200 =>
         \A x \in response'.data.edges :
           LET rel == relationships[x.id] IN
           /\ rel # Absent
           /\ x.label = rel.type
           /\ x.from = rel.sourceId /\ x.to = rel.targetId
           /\ x.title = IF LabelTruthy(rel.description) THEN rel.description ELSE rel.type
           /\ x.value = IF orOne /\ rel.strength = NullNumber THEN 1 ELSE rel.strength

VersionRaceCreate == createChapter("u1", "p1", "T", Text(<<"a">>), NoString)

VersionRaceBegin ==
  \E r \in Requests :
    \/ \E c \in ChapterIds : deleteChapter_Begin(r, "u1", c)
    \/ \E c \in ChapterIds : createVersion_Begin(r, "u1", c)
    \/ \E v \in VersionIds : restoreVersion_Begin(r, "u1", v)

VersionRaceStep ==
  \E r \in Requests :
    \/ deleteChapter_FindChapter(r)
    \/ deleteChapter_CheckOwnership(r)
    \/ deleteChapter_Delete(r)
    \/ deleteChapter_DeleteVersions(r)
    \/ deleteChapter_Renumber(r)
    \/ createVersion_FindChapter(r)
    \/ createVersion_CheckOwnership(r)
    \/ createVersion_Create(r)
    \/ restoreVersion_FindVersion(r)
    \/ restoreVersion_CheckOwnership(r)
    \/ restoreVersion_FindChapter(r)
    \/ restoreVersion_Snapshot(r)
    \/ restoreVersion_Save(r)

NextVersionRace == VersionRaceCreate \/ VersionRaceBegin \/ VersionRaceStep

SpecVersionRace == Init /\ [][NextVersionRace]_vars

\* C38: in every state in which no request is in progress, the chapter of
\* every stored version is stored: a deleteChapter leaves no version of its
\* chapter, also when a createVersion or restoreVersion of that chapter runs
\* at the same time.
C38_NoOrphanVersions ==
  AllIdle
  => \A v \in VersionIds :
       versions[v] # Absent => chapters[versions[v].chapterId] # Absent

(***************************************************************************)
(* Writing statistics.  recordSession, part_004:434-483, over the          *)
(* WritingStats collection of models/WritingStats.js.  timeSpent is        *)
(* accumulated exactly as wordCount is and is left out.                    *)
(***************************************************************************)
MaxSessions == 3

\* req.body.date: a day and an hour of that day
Timestamps == {[day |-> 1, hour |-> 13], [day |-> 2, hour |-> 0]}

SessionWords == {NoNumber, 2}

\* sessionDate.setHours(0, 0, 0, 0)
StartOfDay(t) == [t EXCEPT !.hour = 0]

\* wordCount || 0
OrZero(n) == IF n = NoNumber THEN 0 ELSE n

\* WritingStats.find({userId, projectId, date})
StatsOf(docs, u, p, date) ==
  {s \in docs : s.userId = u /\ s.projectId = p /\ s.date = date}

\* Variant of UniqueStat without the unique index.
UniqueStat_NoIndex(docs, u, p, date) == TRUE

\* WritingStatSchema.index({userId: 1, projectId: 1, date: 1}, {unique: true}),
\* WritingStats.js:36-40: an insert of a second document of the key is refused
UniqueStat(docs, u, p, date) == StatsOf(docs, u, p, date) = {}

StatRequest(u, p, wordCount, date) ==
  [op |-> "recordSession", pc |-> "checkOwnership", userId |-> u,
   projectId |-> p, wordCount |-> wordCount, date |-> date,
   stat |-> Absent, status |-> 0, id |-> 0]

AnswerStat(r, status, id) ==
  inflight' = [inflight EXCEPT ![r].pc = "done", ![r].status = status,
                               ![r].id = id]

PendingSessions ==
  Cardinality({r \in Requests : ~Free(r) /\ inflight[r].op = "recordSession"})

recordSession_Begin(r, u, p, wordCount, t) ==
  /\ Free(r)
  /\ \A s \in stats : s.sessionsCount + PendingSessions < MaxSessions
  /\ PendingSessions < MaxSessions
  /\ inflight' = [inflight EXCEPT ![r] = StatRequest(u, p, wordCount, StartOfDay(t))]
  /\ UNCHANGED graph
  /\ UNCHANGED <<untouched, stats>>

recordSession_CheckOwnership(r) ==
  /\ At(r, "recordSession", "checkOwnership")
  /\ LET own == checkProjectOwnership(projects, inflight[r].projectId,
                                      inflight[r].userId)
     IN IF own # 0 THEN AnswerStat(r, own, 0) ELSE Goto(r, "findOne")
  /\ UNCHANGED graph
  /\ UNCHANGED <<untouched, stats>>

\* WritingStats.findOne: the document found is the handler's local stat
recordSession_FindOne(r) ==
  /\ At(r, "recordSession", "findOne")
  /\ LET q == inflight[r]
         found == StatsOf(stats, q.userId, q.projectId, q.date)
     IN IF found = {}
        THEN Goto(r, "create")
        ELSE \E s \in found :
               inflight' = [inflight EXCEPT ![r].pc = "save", ![r].stat = s]
  /\ UNCHANGED graph
  /\ UNCHANGED <<untouched, stats>>

\* stat.save() writes the paths the handler changed on the loaded document:
\* sessionsCount always, wordCount when the sum differs from the loaded one
recordSession_Save(r) ==
  /\ At(r, "recordSession", "save")
  /\ LET q == inflight[r]
         stored == CHOOSE s \in stats : s.id = q.stat.id
         saved == [stored EXCEPT
                     !.wordCount = IF OrZero(q.wordCount) = 0 THEN @
                                   ELSE q.stat.wordCount + OrZero(q.wordCount),
                     !.sessionsCount = q.stat.sessionsCount + 1]
     IN /\ stats' = (stats \ {stored}) \cup {saved}
        /\ AnswerStat(r, 200, stored.id)
  /\ UNCHANGED graph
  /\ UNCHANGED untouched

\* WritingStats.create; the error of the unique index is answered 500
recordSession_Create(r) ==
  /\ At(r, "recordSession", "create")
  /\ LET q == inflight[r] IN
     IF ~UniqueStat(stats, q.userId, q.projectId, q.date)
     THEN AnswerStat(r, 500, 0) /\ UNCHANGED stats
     ELSE LET id == Cardinality(stats) + 1 IN
          /\ stats' = stats \cup
               {[id |-> id, userId |-> q.userId, projectId |-> q.projectId,
                 date |-> q.date, wordCount |-> OrZero(q.wordCount),
                 sessionsCount |-> 1]}
          /\ AnswerStat(r, 200, id)
  /\ UNCHANGED graph
  /\ UNCHANGED untouched

StatsBegin ==
  \E r \in Requests, u \in UserIds, p \in {"p1", "p3"},
     wordCount \in SessionWords, t \in Timestamps :
    recordSession_Begin(r, u, p, wordCount, t)

StatsStep ==
  \E r \in Requests :
    \/ recordSession_CheckOwnership(r)
    \/ recordSession_FindOne(r)
    \/ recordSession_Save(r)
    \/ recordSession_Create(r)

NextStats == StatsBegin \/ StatsStep

SpecStats == Init /\ [][NextStats]_vars

\* the stored sessionsCount and wordCount of the key of request r, zero when
\* the key has no document
Recorded(docs, r) ==
  LET found == StatsOf(docs, inflight[r].userId, inflight[r].projectId,
                       inflight[r].date)
  IN IF found = {} THEN [sessionsCount |-> 0, wordCount |-> 0]
     ELSE LET s == CHOOSE x \in found : TRUE
          IN [sessionsCount |-> s.sessionsCount, wordCount |-> s.wordCount]

\* C40: under every interleaving of recordSession calls there is at most one
\* WritingStat document per (user, project, day), and every call that is
\* answered 200 adds one to the sessionsCount and its word count to the
\* wordCount of the document of its key, so that sessionsCount is the number
\* of successful calls and wordCount the sum of their words.
C40_NoSessionLost ==
  [][/\ \A s, t \in stats' :
          (s.userId = t.userId /\ s.projectId = t.projectId /\ s.date = t.date)
          => s = t
     /\ \A r \in Requests :
          (~Free(r) /\ inflight[r].op = "recordSession"
             /\ inflight'[r].pc = "done" /\ inflight'[r].status = 200)
          => /\ Recorded(stats', r).sessionsCount
                  = Recorded(stats, r).sessionsCount + 1
             /\ Recorded(stats', r).wordCount
                  = Recorded(stats, r).wordCount + OrZero(inflight[r].wordCount)
    ]_vars
====
